---- MODULE Spec2Model ----
(***************************************************************************)
(* QNNPACK indirect convolution core.                                      *)
(*                                                                         *)
(*   src/src/indirection.c     the four indirection planners               *)
(*   src/src/q8conv/8x8-neon.c the 8x8 indirect GEMM micro-kernel          *)
(*                                                                         *)
(* Addresses are modelled as integers (byte addresses).  size_t values are *)
(* kept modulo SizeModulus, so that the planners' unsigned subtractions    *)
(* wrap as they do in C.  The accumulators of the micro-kernel are signed  *)
(* 32-bit integers.                                                        *)
(***************************************************************************)
EXTENDS Integers, Sequences, FiniteSets, TLC

VARIABLES
  pc,                  \* "idle" | "planned" | "replanned" |
                       \* "sharing" | "shared"
  op,                  \* the operator descriptor (struct qnnp_operator)
  call,                \* the planner call made: its kind and arguments
  indirection_buffer,  \* op->indirection_buffer: slot -> address
  wlog,                \* the writes of the planner call, in program order
  kpc,                 \* micro-kernel: "none" | "entry" | "loop" |
                       \*   "requantize" | "store" | "done"
  kargs,               \* micro-kernel: the arguments of the call
  vacc,                \* micro-kernel: vacc0x0123 .. vacc7x4567, row -> lane
  a_pos,               \* micro-kernel: pointers consumed from a
  w_pos,               \* micro-kernel: bytes consumed from w
  ks_left,             \* micro-kernel: the running ks
  vout,                \* micro-kernel: vout0x01234567 .. 7x01234567
  cmem,                \* the output memory: address -> byte
  stores,              \* micro-kernel: the byte stores, in program order
  loads,               \* micro-kernel: the vector loads from a and w, in
                       \*   program order
  tail_vxa             \* micro-kernel: vxa0 .. vxa7 of the tail path of
                       \*   the last pass, row -> lane (<<>> before one)

pvars == <<pc, op, call, indirection_buffer, wlog>>
kvars ==
  <<kpc, kargs, vacc, a_pos, w_pos, ks_left, vout, cmem, stores, loads, tail_vxa>>
vars == <<pvars, kvars>>

---------------------------------------------------------------------------
(* Bounds of the model.                                                    *)

MaxIn == 2          \* input_height, input_width        in 1..MaxIn
MaxOut == 2         \* output_height, output_width      in 1..MaxOut
MaxBatch == 2       \* batch_size                       in 1..MaxBatch

KernelDims == {1, 2}     \* kernel_height, kernel_width
Strides == {1, 2}        \* stride_height, stride_width
Dilations == {1, 2}      \* dilation_height, dilation_width
Paddings == {0, 1}       \* input_padding_top, input_padding_left
Groups == {1, 2}         \* groups
TileSizes == {2, 3}      \* output_tile_size
BatchStarts == {0, 1, MaxBatch}    \* batch_start; batch_size: no image
StepWidths == {1, 2}     \* step_width
ExtraStep == {0, 1}      \* slack of step_height over the row length

(* size_t: the planners compute in size_t; a value below zero wraps to     *)
(* SizeModulus - n.  The word is narrower than the 32 or 64 bits of the    *)
(* build, which changes nothing as long as every geometry product stays    *)
(* far below SizeModulus, as it does within the bounds above.              *)
SizeModulus == 2^30

(* The contents of a slot the planner has not written.                     *)
Unwritten == -1

(* The two anchors of the descriptor: distinct allocations.                *)
InputBase == 4096
ZeroBase == 256

---------------------------------------------------------------------------
(* Helpers of qnnpack/math.h and of C arithmetic.                          *)

SizeT(x) == x % SizeModulus

min(a, b) == IF a < b THEN a ELSE b

doz(a, b) == IF a >= b THEN a - b ELSE 0

divide_round_up(n, q) == (n + q - 1) \div q

Last(S) == CHOOSE k \in S : \A j \in S : j <= k

(* Mutant: the store adds to the slot instead of assigning it.             *)
Store_Adding(buf, index, value) == [buf EXCEPT ![index] = @ + value]

(* indirection_buffer[index] = value                                       *)
Store(buf, index, value) == [buf EXCEPT ![index] = value]

(* The buffer after the writes log[lo..hi], applied in order to buf.  The  *)
(* range is halved, and the first half is evaluated (its domain is that of *)
(* buf: a write never changes it) before the second half is applied.       *)
RECURSIVE ApplyRange(_, _, _, _)
ApplyRange(buf, log, lo, hi) ==
  IF lo > hi THEN buf
  ELSE IF lo = hi THEN Store(buf, log[lo].index, log[lo].value)
  ELSE LET mid == (lo + hi) \div 2
           first == ApplyRange(buf, log, lo, mid)
       IN IF DOMAIN first = DOMAIN buf
            THEN ApplyRange(first, log, mid + 1, hi)
            ELSE buf

(* The buffer after the writes of log, applied in order to buf: a slot     *)
(* holds the value of the last write to it.                                *)
ApplyWrites(buf, log) == ApplyRange(buf, log, 1, Len(log))

(* A freshly allocated buffer of n slots.                                  *)
FreshBuffer(n) == [i \in 0..(n - 1) |-> Unwritten]

---------------------------------------------------------------------------
(* qnnp_indirection_init_conv2d                                            *)

output_size(o) == o.output_height * o.output_width
kernel_size(o) == o.kernel_height * o.kernel_width

(* tiled_output_size as the caller passes it: output_size rounded up to a  *)
(* multiple of the tile.                                                   *)
TiledOutputSize(o, output_tile_size) ==
  output_tile_size * divide_round_up(output_size(o), output_tile_size)

(* Mutant: the tiled position is not clamped to the last output pixel.     *)
Conv2dOutputIndex_Unclamped(o, tiled_output_index) == tiled_output_index

(* lines 70-74: the output pixel of a tiled position.                      *)
Conv2dOutputIndex(o, tiled_output_index) ==
  min(tiled_output_index, output_size(o) - 1)

(* Mutant: the subtraction of the padding saturates at 0 instead of        *)
(* wrapping, so a row above the input is taken for row 0.                  *)
Conv2dInputY_Saturating(o, output_y, kernel_y) ==
  doz(output_y * o.stride_height + kernel_y * o.dilation_height,
      o.input_padding_top)

(* lines 76, 79: input coordinates, in size_t.                             *)
Conv2dInputY(o, output_y, kernel_y) ==
  SizeT(output_y * o.stride_height + kernel_y * o.dilation_height
          - o.input_padding_top)

Conv2dInputX(o, output_x, kernel_x) ==
  SizeT(output_x * o.stride_width + kernel_x * o.dilation_width
          - o.input_padding_left)

(* Mutant: the kernel site is linearised with kernel_height for            *)
(* kernel_width.                                                           *)
Conv2dIndex_SiteByHeight(o, output_tile_size, tiled_output_size, group, image, output_tile_start, output_tile_offset, kernel_y, kernel_x) ==
  SizeT((group * o.batch_size + image) * tiled_output_size * kernel_size(o)
        + output_tile_start * kernel_size(o)
        + (kernel_y * o.kernel_height + kernel_x) * output_tile_size
        + output_tile_offset)

(* lines 82-85 (and 98-100): the slot of (group, image, tile, offset, site) *)
Conv2dIndex(o, output_tile_size, tiled_output_size, group, image, output_tile_start, output_tile_offset, kernel_y, kernel_x) ==
  SizeT((group * o.batch_size + image) * tiled_output_size * kernel_size(o)
        + output_tile_start * kernel_size(o)
        + (kernel_y * o.kernel_width + kernel_x) * output_tile_size
        + output_tile_offset)

(* Mutant: the input row is scaled by input_height for input_width.        *)
Conv2dAddress_RowByHeight(o, group, image, input_y, input_x) ==
  o.input
  + image * o.input_height * o.input_width * o.input_pixel_stride
  + (input_y * o.input_height + input_x) * o.input_pixel_stride
  + group * o.group_input_channels

(* lines 88-91: the address of input pixel (image, input_y, input_x) at    *)
(* the first channel of the group.                                         *)
Conv2dAddress(o, group, image, input_y, input_x) ==
  o.input
  + image * o.input_height * o.input_width * o.input_pixel_stride
  + (input_y * o.input_width + input_x) * o.input_pixel_stride
  + group * o.group_input_channels

(* lines 77-103: what is stored for one kernel site.                       *)
Conv2dValue(o, group, image, output_y, output_x, kernel_y, kernel_x) ==
  LET input_y == Conv2dInputY(o, output_y, kernel_y)
      input_x == Conv2dInputX(o, output_x, kernel_x)
  IN IF input_y < o.input_height
       THEN IF input_x < o.input_width
              THEN Conv2dAddress(o, group, image, input_y, input_x)
              ELSE o.zero_pointer
       ELSE o.zero_pointer

(* The k-th write (k from 0) of the loop nest of lines 66-108: the loops   *)
(* are group, image, output_tile_start, output_tile_offset, kernel_y,      *)
(* kernel_x, outermost first.                                              *)
Conv2dWrite(o, output_tile_size, tiled_output_size, k) ==
  LET kw == o.kernel_width
      kh == o.kernel_height
      tiles == divide_round_up(tiled_output_size, output_tile_size)
      kernel_x == k % kw
      kernel_y == (k \div kw) % kh
      output_tile_offset == (k \div (kw * kh)) % output_tile_size
      tile == (k \div (kw * kh * output_tile_size)) % tiles
      image == (k \div (kw * kh * output_tile_size * tiles)) % o.batch_size
      group == k \div (kw * kh * output_tile_size * tiles * o.batch_size)
      output_tile_start == tile * output_tile_size
      output_index ==
        Conv2dOutputIndex(o, output_tile_start + output_tile_offset)
      output_y == output_index \div o.output_width
      output_x == output_index % o.output_width
  IN [index |-> Conv2dIndex(o, output_tile_size, tiled_output_size, group,
                            image, output_tile_start, output_tile_offset,
                            kernel_y, kernel_x),
      value |-> Conv2dValue(o, group, image, output_y, output_x,
                            kernel_y, kernel_x)]

Conv2dLog(o, output_tile_size, tiled_output_size) ==
  LET tiles == divide_round_up(tiled_output_size, output_tile_size)
      total == o.groups * o.batch_size * tiles * output_tile_size
                 * kernel_size(o)
  IN [k \in 1..total |->
        Conv2dWrite(o, output_tile_size, tiled_output_size, k - 1)]

(* The capacity the caller allocates for a conv or deconv plan.            *)
ConvCapacity(o, tiled_output_size) ==
  o.groups * o.batch_size * tiled_output_size * kernel_size(o)

---------------------------------------------------------------------------
(* qnnp_indirection_init_deconv2d                                          *)

(* lines 201, 204: y and x, in size_t.                                     *)
Deconv2dY(o, output_y, kernel_y) ==
  SizeT(output_y + o.input_padding_top - kernel_y * o.dilation_height)

Deconv2dX(o, output_x, kernel_x) ==
  SizeT(output_x + o.input_padding_left - kernel_x * o.dilation_width)

(* Mutant: the group is not scaled by batch_size.                          *)
Deconv2dIndex_GroupUnscaled(o, output_tile_size, tiled_output_size, group, image, output_tile_start, output_tile_offset, kernel_y, kernel_x) ==
  SizeT((group + image) * tiled_output_size * kernel_size(o)
        + output_tile_start * kernel_size(o)
        + (kernel_y * o.kernel_width + kernel_x) * output_tile_size
        + output_tile_offset)

(* lines 206-207 *)
Deconv2dIndex(o, output_tile_size, tiled_output_size, group, image, output_tile_start, output_tile_offset, kernel_y, kernel_x) ==
  SizeT((group * o.batch_size + image) * tiled_output_size * kernel_size(o)
        + output_tile_start * kernel_size(o)
        + (kernel_y * o.kernel_width + kernel_x) * output_tile_size
        + output_tile_offset)

(* line 210 *)
Deconv2dAddress(o, group, image, input_y, input_x) ==
  o.input
  + ((image * o.input_height + input_y) * o.input_width + input_x)
      * o.input_pixel_stride
  + group * o.group_input_channels

(* Mutant: the test without the two multiple-of-stride comparisons.        *)
Deconv2dValid_NoStrideTest(o, y, input_y, x, input_x) ==
  /\ input_y < o.input_height
  /\ input_x < o.input_width

(* Mutant: the test without input_y < input_height.                       *)
Deconv2dValid_NoHeightTest(o, y, input_y, x, input_x) ==
  /\ SizeT(input_y * o.stride_height) = y
  /\ SizeT(input_x * o.stride_width) = x
  /\ input_x < o.input_width

(* line 208: the test that keeps a kernel tap.                             *)
Deconv2dValid(o, y, input_y, x, input_x) ==
  /\ SizeT(input_y * o.stride_height) = y
  /\ input_y < o.input_height
  /\ SizeT(input_x * o.stride_width) = x
  /\ input_x < o.input_width

(* lines 201-213 *)
Deconv2dValue(o, group, image, output_y, output_x, kernel_y, kernel_x) ==
  LET y == Deconv2dY(o, output_y, kernel_y)
      input_y == y \div o.stride_height
      x == Deconv2dX(o, output_x, kernel_x)
      input_x == x \div o.stride_width
  IN IF Deconv2dValid(o, y, input_y, x, input_x)
       THEN Deconv2dAddress(o, group, image, input_y, input_x)
       ELSE o.zero_pointer

(* lines 196-199 *)
Deconv2dOutputIndex(o, tiled_output_index) ==
  min(tiled_output_index, output_size(o) - 1)

(* The k-th write (k from 0) of the loop nest of lines 192-219.            *)
Deconv2dWrite(o, output_tile_size, tiled_output_size, k) ==
  LET kw == o.kernel_width
      kh == o.kernel_height
      tiles == divide_round_up(tiled_output_size, output_tile_size)
      kernel_x == k % kw
      kernel_y == (k \div kw) % kh
      output_tile_offset == (k \div (kw * kh)) % output_tile_size
      tile == (k \div (kw * kh * output_tile_size)) % tiles
      image == (k \div (kw * kh * output_tile_size * tiles)) % o.batch_size
      group == k \div (kw * kh * output_tile_size * tiles * o.batch_size)
      output_tile_start == tile * output_tile_size
      output_index ==
        Deconv2dOutputIndex(o, output_tile_start + output_tile_offset)
      output_y == output_index \div o.output_width
      output_x == output_index % o.output_width
  IN [index |-> Deconv2dIndex(o, output_tile_size, tiled_output_size, group,
                              image, output_tile_start, output_tile_offset,
                              kernel_y, kernel_x),
      value |-> Deconv2dValue(o, group, image, output_y, output_x,
                              kernel_y, kernel_x)]

Deconv2dLog(o, output_tile_size, tiled_output_size) ==
  LET tiles == divide_round_up(tiled_output_size, output_tile_size)
      total == o.groups * o.batch_size * tiles * output_tile_size
                 * kernel_size(o)
  IN [k \in 1..total |->
        Deconv2dWrite(o, output_tile_size, tiled_output_size, k - 1)]

---------------------------------------------------------------------------
(* qnnp_indirection_init_dwconv2d                                          *)

(* Mutant: the kernel column is not scaled by kernel_height.               *)
Dwconv2dIndex_ColumnUnscaled(o, step_height, step_width, image, output_y, output_x, kernel_y, kernel_x) ==
  SizeT((image * o.output_height + output_y) * step_height
        + output_x * step_width * o.kernel_height
        + kernel_x
        + kernel_y)

(* lines 143 and 154 *)
Dwconv2dIndex(o, step_height, step_width, image, output_y, output_x, kernel_y, kernel_x) ==
  SizeT((image * o.output_height + output_y) * step_height
        + output_x * step_width * o.kernel_height
        + kernel_x * o.kernel_height
        + kernel_y)

(* Mutant: the image is left out of the address.                           *)
Dwconv2dAddress_NoImage(o, image, input_y, input_x) ==
  o.input + (input_y * o.input_width + input_x) * o.input_pixel_stride

(* line 145 *)
Dwconv2dAddress(o, image, input_y, input_x) ==
  o.input
  + ((image * o.input_height + input_y) * o.input_width + input_x)
      * o.input_pixel_stride

(* Mutant: input_x leaves out kernel_x * dilation_width.                    *)
Dwconv2dValue_NoKernelX(o, image, output_y, output_x, kernel_y, kernel_x) ==
  LET input_y == SizeT(output_y * o.stride_height
                       + kernel_y * o.dilation_height - o.input_padding_top)
      input_x == SizeT(output_x * o.stride_width - o.input_padding_left)
  IN IF input_y < o.input_height
       THEN IF input_x < o.input_width
              THEN Dwconv2dAddress(o, image, input_y, input_x)
              ELSE o.zero_pointer
       ELSE o.zero_pointer

(* lines 138-156 *)
Dwconv2dValue(o, image, output_y, output_x, kernel_y, kernel_x) ==
  LET input_y == SizeT(output_y * o.stride_height
                       + kernel_y * o.dilation_height - o.input_padding_top)
      input_x == SizeT(output_x * o.stride_width
                       + kernel_x * o.dilation_width - o.input_padding_left)
  IN IF input_y < o.input_height
       THEN IF input_x < o.input_width
              THEN Dwconv2dAddress(o, image, input_y, input_x)
              ELSE o.zero_pointer
       ELSE o.zero_pointer

(* The k-th write (k from 0) of the loop nest of lines 135-161: the loops  *)
(* are image (from batch_start), output_y, kernel_y, output_x, kernel_x.   *)
Dwconv2dWrite(o, batch_start, step_height, step_width, k) ==
  LET kw == o.kernel_width
      kh == o.kernel_height
      ow == o.output_width
      oh == o.output_height
      kernel_x == k % kw
      output_x == (k \div kw) % ow
      kernel_y == (k \div (kw * ow)) % kh
      output_y == (k \div (kw * ow * kh)) % oh
      image == batch_start + k \div (kw * ow * kh * oh)
  IN [index |-> Dwconv2dIndex(o, step_height, step_width, image, output_y,
                              output_x, kernel_y, kernel_x),
      value |-> Dwconv2dValue(o, image, output_y, output_x,
                              kernel_y, kernel_x)]

(* Mutant: the loop over the images makes batch_size passes from           *)
(* batch_start.                                                            *)
Dwconv2dLog_AllImages(o, batch_start, step_height, step_width) ==
  LET total == o.batch_size * o.output_height * o.kernel_height
                 * o.output_width * o.kernel_width
  IN [k \in 1..total |->
        Dwconv2dWrite(o, batch_start, step_height, step_width, k - 1)]

Dwconv2dLog(o, batch_start, step_height, step_width) ==
  LET images == IF batch_start < o.batch_size
                  THEN o.batch_size - batch_start ELSE 0
      total == images * o.output_height * o.kernel_height
                 * o.output_width * o.kernel_width
  IN [k \in 1..total |->
        Dwconv2dWrite(o, batch_start, step_height, step_width, k - 1)]

---------------------------------------------------------------------------
(* qnnp_indirection_init_maxpool2d                                         *)

(* Mutant: the row is not clamped to input_height - 1.                     *)
MaxpoolInputY_NoUpperClamp(o, output_y, pooling_y) ==
  doz(output_y * o.stride_height + pooling_y * o.dilation_height,
      o.input_padding_top)

(* lines 248-249 and 252-253 *)
MaxpoolInputY(o, output_y, pooling_y) ==
  min(doz(output_y * o.stride_height + pooling_y * o.dilation_height,
          o.input_padding_top),
      o.input_height - 1)

(* Mutant: the left padding is not subtracted.                             *)
MaxpoolInputX_NoPadding(o, output_x, pooling_x) ==
  min(output_x * o.stride_width + pooling_x * o.dilation_width,
      o.input_width - 1)

MaxpoolInputX(o, output_x, pooling_x) ==
  min(doz(output_x * o.stride_width + pooling_x * o.dilation_width,
          o.input_padding_left),
      o.input_width - 1)

(* Mutant: the image is scaled by output_width for output_height.          *)
MaxpoolIndex_ImageByWidth(o, step_height, step_width, image, output_y, output_x, pooling_y, pooling_x) ==
  SizeT((image * o.output_width + output_y) * step_height
        + output_x * step_width * o.kernel_height
        + pooling_x * o.kernel_height
        + pooling_y)

(* line 254 *)
MaxpoolIndex(o, step_height, step_width, image, output_y, output_x, pooling_y, pooling_x) ==
  SizeT((image * o.output_height + output_y) * step_height
        + output_x * step_width * o.kernel_height
        + pooling_x * o.kernel_height
        + pooling_y)

(* line 255 *)
MaxpoolValue(o, image, output_y, output_x, pooling_y, pooling_x) ==
  o.input
  + ((image * o.input_height + MaxpoolInputY(o, output_y, pooling_y))
       * o.input_width + MaxpoolInputX(o, output_x, pooling_x))
      * o.input_pixel_stride

(* The k-th write (k from 0) of the loop nest of lines 245-260: the loops  *)
(* are image (from batch_start), output_y, pooling_y, output_x, pooling_x. *)
MaxpoolWrite(o, batch_start, step_height, step_width, k) ==
  LET kw == o.kernel_width
      kh == o.kernel_height
      ow == o.output_width
      oh == o.output_height
      pooling_x == k % kw
      output_x == (k \div kw) % ow
      pooling_y == (k \div (kw * ow)) % kh
      output_y == (k \div (kw * ow * kh)) % oh
      image == batch_start + k \div (kw * ow * kh * oh)
  IN [index |-> MaxpoolIndex(o, step_height, step_width, image, output_y,
                             output_x, pooling_y, pooling_x),
      value |-> MaxpoolValue(o, image, output_y, output_x,
                             pooling_y, pooling_x)]

MaxpoolLog(o, batch_start, step_height, step_width) ==
  LET images == IF batch_start < o.batch_size
                  THEN o.batch_size - batch_start ELSE 0
      total == images * o.output_height * o.kernel_height
                 * o.output_width * o.kernel_width
  IN [k \in 1..total |->
        MaxpoolWrite(o, batch_start, step_height, step_width, k - 1)]

(* The capacity the caller allocates for a depthwise or max-pool plan.     *)
StepCapacity(o, step_height) ==
  o.batch_size * o.output_height * step_height

---------------------------------------------------------------------------
(* The operator descriptors of the model.  The dilation of an axis whose   *)
(* kernel has one tap is never multiplied by anything but 0: it is kept 1. *)

Axes ==
  {a \in [in : 1..MaxIn, out : 1..MaxOut, kernel : KernelDims,
          stride : Strides, dilation : Dilations, padding : Paddings] :
     a.kernel = 1 => a.dilation = 1}

Operator(h, w, g, n) ==
  [input |-> InputBase,
   zero_pointer |-> ZeroBase,
   groups |-> g,
   group_input_channels |-> 3,
   input_pixel_stride |-> 3 * g + 1,
   batch_size |-> n,
   input_height |-> h.in,
   input_width |-> w.in,
   output_height |-> h.out,
   output_width |-> w.out,
   kernel_height |-> h.kernel,
   kernel_width |-> w.kernel,
   stride_height |-> h.stride,
   stride_width |-> w.stride,
   dilation_height |-> h.dilation,
   dilation_width |-> w.dilation,
   input_padding_top |-> h.padding,
   input_padding_left |-> w.padding]

(* The geometries of the worked scenarios: a 3x3 window with padding 1 on  *)
(* a 4x4 input (one group, one image), and a 2x2 stride-2 transposed       *)
(* convolution of a 2x2 input into a 4x4 output.                           *)
Scenario3x3Axis ==
  [in |-> 4, out |-> 4, kernel |-> 3, stride |-> 1, dilation |-> 1,
   padding |-> 1]

Scenario3x3Operator == Operator(Scenario3x3Axis, Scenario3x3Axis, 1, 1)

ScenarioDeconvAxis ==
  [in |-> 2, out |-> 4, kernel |-> 2, stride |-> 2, dilation |-> 1,
   padding |-> 0]

ScenarioDeconvOperator == Operator(ScenarioDeconvAxis, ScenarioDeconvAxis, 1, 1)

(* The (groups, batch_size) pairs of the conv and deconv operators: one    *)
(* group with one image, and each larger number of groups with MaxBatch    *)
(* images.  The depthwise and max-pool operators have batch_size MaxBatch, *)
(* and their calls start at any image of BatchStarts.                      *)
GroupBatch ==
  {gn \in Groups \X (1..MaxBatch) :
     IF gn[1] = 1 THEN gn[2] = 1 ELSE gn[2] = MaxBatch}

NoCall == [kind |-> "none"]

(* No micro-kernel call has been made.                                     *)
NoArgs == [mr |-> 0]

KernelNotCalled ==
  /\ kpc = "none"
  /\ kargs = NoArgs
  /\ vacc = <<>>
  /\ a_pos = 0
  /\ w_pos = 0
  /\ ks_left = 0
  /\ vout = <<>>
  /\ cmem = <<>>
  /\ stores = <<>>
  /\ loads = <<>>
  /\ tail_vxa = <<>>

---------------------------------------------------------------------------
(* The planner calls.  The caller allocates the indirection buffer with    *)
(* the capacity the plan needs and then calls the planner; one action is   *)
(* one whole call.                                                         *)

InitConv2d(output_tile_size) ==
  LET tiled_output_size == TiledOutputSize(op, output_tile_size)
      log == Conv2dLog(op, output_tile_size, tiled_output_size)
  IN /\ pc = "idle"
     /\ pc' = "planned"
     /\ call' = [kind |-> "conv2d",
                 output_tile_size |-> output_tile_size,
                 tiled_output_size |-> tiled_output_size]
     /\ wlog' = log
     /\ indirection_buffer' =
          ApplyWrites(FreshBuffer(ConvCapacity(op, tiled_output_size)), wlog')
     /\ UNCHANGED <<op, kvars>>

InitDeconv2d(output_tile_size) ==
  LET tiled_output_size == TiledOutputSize(op, output_tile_size)
      log == Deconv2dLog(op, output_tile_size, tiled_output_size)
  IN /\ pc = "idle"
     /\ pc' = "planned"
     /\ call' = [kind |-> "deconv2d",
                 output_tile_size |-> output_tile_size,
                 tiled_output_size |-> tiled_output_size]
     /\ wlog' = log
     /\ indirection_buffer' =
          ApplyWrites(FreshBuffer(ConvCapacity(op, tiled_output_size)), wlog')
     /\ UNCHANGED <<op, kvars>>

InitDwconv2d(batch_start, step_height, step_width) ==
  LET log == Dwconv2dLog(op, batch_start, step_height, step_width)
  IN /\ pc = "idle"
     /\ pc' = "planned"
     /\ call' = [kind |-> "dwconv2d",
                 batch_start |-> batch_start,
                 step_height |-> step_height,
                 step_width |-> step_width]
     /\ wlog' = log
     /\ indirection_buffer' =
          ApplyWrites(FreshBuffer(StepCapacity(op, step_height)), wlog')
     /\ UNCHANGED <<op, kvars>>

InitMaxpool2d(batch_start, step_height, step_width) ==
  LET log == MaxpoolLog(op, batch_start, step_height, step_width)
  IN /\ pc = "idle"
     /\ pc' = "planned"
     /\ call' = [kind |-> "maxpool2d",
                 batch_start |-> batch_start,
                 step_height |-> step_height,
                 step_width |-> step_width]
     /\ wlog' = log
     /\ indirection_buffer' =
          ApplyWrites(FreshBuffer(StepCapacity(op, step_height)), wlog')
     /\ UNCHANGED <<op, kvars>>

(* The step arguments of a depthwise or max-pool call: step_width is any   *)
(* of StepWidths, step_height is at least the row length                   *)
(* output_width * step_width * kernel_height.                              *)
StepHeights(o, step_width) ==
  {o.output_width * step_width * o.kernel_height + e : e \in ExtraStep}

---------------------------------------------------------------------------
(* Conv and deconv plans.                                                  *)

ConvInit ==
  /\ pc = "idle"
  /\ op \in {Operator(h, w, gn[1], gn[2]) :
               h \in Axes, w \in Axes, gn \in GroupBatch}
             \cup {Scenario3x3Operator, ScenarioDeconvOperator}
  /\ call = NoCall
  /\ indirection_buffer = <<>>
  /\ wlog = <<>>
  /\ KernelNotCalled

PlanConv2d == \E output_tile_size \in TileSizes : InitConv2d(output_tile_size)

PlanDeconv2d ==
  \E output_tile_size \in TileSizes : InitDeconv2d(output_tile_size)

ConvNext == PlanConv2d \/ PlanDeconv2d

ConvSpec == ConvInit /\ [][ConvNext]_vars

---------------------------------------------------------------------------
(* Depthwise and max-pool plans.                                           *)

PoolInit ==
  /\ pc = "idle"
  /\ op \in {Operator(h, w, 1, MaxBatch) : h \in Axes, w \in Axes}
             \cup {Scenario3x3Operator}
  /\ call = NoCall
  /\ indirection_buffer = <<>>
  /\ wlog = <<>>
  /\ KernelNotCalled

(* The step widths of the calls on op: those of StepWidths and the width   *)
(* of the kernel, the least step at which no two sites share a slot.       *)
PlanStepWidths == StepWidths \cup {op.kernel_width}

PlanDwconv2d ==
  \E batch_start \in BatchStarts, step_width \in PlanStepWidths :
    \E step_height \in StepHeights(op, step_width) :
      InitDwconv2d(batch_start, step_height, step_width)

PlanMaxpool2d ==
  \E batch_start \in BatchStarts, step_width \in PlanStepWidths :
    \E step_height \in StepHeights(op, step_width) :
      InitMaxpool2d(batch_start, step_height, step_width)

PoolNext == PlanDwconv2d \/ PlanMaxpool2d

PoolSpec == PoolInit /\ [][PoolNext]_vars

---------------------------------------------------------------------------
(* A planner run a second time on the buffer its first run left, with the  *)
(* same descriptor and the same arguments.                                 *)

RerunConv2d ==
  /\ pc = "planned" /\ call.kind = "conv2d"
  /\ pc' = "replanned"
  /\ wlog' = Conv2dLog(op, call.output_tile_size, call.tiled_output_size)
  /\ indirection_buffer' = ApplyWrites(indirection_buffer, wlog')
  /\ UNCHANGED <<op, call, kvars>>

RerunDeconv2d ==
  /\ pc = "planned" /\ call.kind = "deconv2d"
  /\ pc' = "replanned"
  /\ wlog' = Deconv2dLog(op, call.output_tile_size, call.tiled_output_size)
  /\ indirection_buffer' = ApplyWrites(indirection_buffer, wlog')
  /\ UNCHANGED <<op, call, kvars>>

RerunDwconv2d ==
  /\ pc = "planned" /\ call.kind = "dwconv2d"
  /\ pc' = "replanned"
  /\ wlog' = Dwconv2dLog(op, call.batch_start, call.step_height,
                         call.step_width)
  /\ indirection_buffer' = ApplyWrites(indirection_buffer, wlog')
  /\ UNCHANGED <<op, call, kvars>>

RerunMaxpool2d ==
  /\ pc = "planned" /\ call.kind = "maxpool2d"
  /\ pc' = "replanned"
  /\ wlog' = MaxpoolLog(op, call.batch_start, call.step_height,
                        call.step_width)
  /\ indirection_buffer' = ApplyWrites(indirection_buffer, wlog')
  /\ UNCHANGED <<op, call, kvars>>

(* The descriptors of the repeated plans: two groups of MaxBatch images on *)
(* the axes of dilation 1, and the two scenarios.                          *)
ReplanAxes == {a \in Axes : a.dilation = 1}

ReplanInit ==
  /\ pc = "idle"
  /\ op \in {Operator(h, w, 2, MaxBatch) : h \in ReplanAxes, w \in ReplanAxes}
             \cup {Scenario3x3Operator, ScenarioDeconvOperator}
  /\ call = NoCall
  /\ indirection_buffer = <<>>
  /\ wlog = <<>>
  /\ KernelNotCalled

(* The step heights that hold a whole output row: the row length, or the   *)
(* extent of the writes of a row when the sites of neighbouring pixels     *)
(* overlap (step_width < kernel_width), and one slot more.                 *)
WholeRowStepHeights(o, step_width) ==
  LET length == o.output_width * step_width * o.kernel_height
      extent == (o.output_width - 1) * step_width * o.kernel_height
                  + o.kernel_width * o.kernel_height
  IN {(IF extent > length THEN extent ELSE length) + e : e \in ExtraStep}

ReplanDwconv2d ==
  \E batch_start \in BatchStarts, step_width \in PlanStepWidths :
    \E step_height \in WholeRowStepHeights(op, step_width) :
      InitDwconv2d(batch_start, step_height, step_width)

ReplanMaxpool2d ==
  \E batch_start \in BatchStarts, step_width \in PlanStepWidths :
    \E step_height \in WholeRowStepHeights(op, step_width) :
      InitMaxpool2d(batch_start, step_height, step_width)

ReplanNext ==
  \/ PlanConv2d
  \/ PlanDeconv2d
  \/ ReplanDwconv2d
  \/ ReplanMaxpool2d
  \/ RerunConv2d
  \/ RerunDeconv2d
  \/ RerunDwconv2d
  \/ RerunMaxpool2d

ReplanSpec == ReplanInit /\ [][ReplanNext]_vars

---------------------------------------------------------------------------
(* A conv or deconv plan written by two concurrent writers.  The outer     *)
(* loops of the planner run over (group, image, output_tile_start); each   *)
(* triple is owned by one writer, which runs the body of the loops for its *)
(* triples in program order.  A step is one store of one writer, and the   *)
(* steps of the two writers interleave freely.  wlog holds, for each       *)
(* writer, the stores it has made.                                         *)

Writers == {1, 2}

(* How the triples are dealt to the writers: by group, by image, by tile,  *)
(* or in turn by their rank in the loop order.                             *)
Shardings == {"group", "image", "tile", "rank"}

(* The descriptors of the shared plans, two groups of two images each: a   *)
(* 2x2 kernel with padding 1 on a 2x2 input and output, a 1x1 kernel on a  *)
(* 2x2 input with one output pixel, and their two mixtures.                *)
ShardAxes ==
  {[in |-> 2, out |-> 2, kernel |-> 2, stride |-> 1, dilation |-> 1,
    padding |-> 1],
   [in |-> 2, out |-> 1, kernel |-> 1, stride |-> 1, dilation |-> 1,
    padding |-> 0]}

ShardOperators == {Operator(h, w, 2, 2) : h \in ShardAxes, w \in ShardAxes}

(* The stores of the sequential plan of call c, each with the rank of its  *)
(* (group, image, output_tile_start) triple in the loop order: the three   *)
(* inner loops make output_tile_size * kernel_size stores per triple.      *)
TripleLog(c, o) ==
  LET log == IF c.kind = "conv2d"
               THEN Conv2dLog(o, c.output_tile_size, c.tiled_output_size)
               ELSE Deconv2dLog(o, c.output_tile_size, c.tiled_output_size)
      per_triple == c.output_tile_size * kernel_size(o)
  IN [k \in DOMAIN log |->
        [index |-> log[k].index, value |-> log[k].value,
         triple |-> (k - 1) \div per_triple]]

(* The writer that owns the triple of the given rank.                      *)
TripleOwner(c, o, triple) ==
  LET tiles == divide_round_up(c.tiled_output_size, c.output_tile_size)
      tile == triple % tiles
      image == (triple \div tiles) % o.batch_size
      group == triple \div (tiles * o.batch_size)
  IN CASE c.sharding = "group" -> 1 + (group % 2)
       [] c.sharding = "image" -> 1 + (image % 2)
       [] c.sharding = "tile" -> 1 + (tile % 2)
       [] OTHER -> 1 + (triple % 2)

(* The stores of writer w, in program order.                               *)
ShardLog(c, o, w) ==
  SelectSeq(TripleLog(c, o), LAMBDA e : TripleOwner(c, o, e.triple) = w)

(* The buffer is allocated and the triples are dealt: shards holds, for    *)
(* each writer, the stores of its triples in program order.                *)
ShareOut(kind, output_tile_size, sharding) ==
  LET tiled_output_size == TiledOutputSize(op, output_tile_size)
      c == [kind |-> kind,
            output_tile_size |-> output_tile_size,
            tiled_output_size |-> tiled_output_size,
            sharding |-> sharding]
  IN /\ pc = "idle"
     /\ pc' = "sharing"
     /\ call' = [kind |-> kind,
                 output_tile_size |-> output_tile_size,
                 tiled_output_size |-> tiled_output_size,
                 sharding |-> sharding,
                 shards |-> [w \in Writers |-> ShardLog(c, op, w)]]
     /\ wlog' = [w \in Writers |-> <<>>]
     /\ indirection_buffer' = FreshBuffer(ConvCapacity(op, tiled_output_size))
     /\ UNCHANGED <<op, kvars>>

ShareConv2d ==
  \E output_tile_size \in TileSizes, sharding \in Shardings :
    ShareOut("conv2d", output_tile_size, sharding)

ShareDeconv2d ==
  \E output_tile_size \in TileSizes, sharding \in Shardings :
    ShareOut("deconv2d", output_tile_size, sharding)

(* The next store of writer w.                                             *)
WriterStore(w) ==
  LET mine == call.shards[w]
      next == Len(wlog[w]) + 1
  IN /\ pc = "sharing"
     /\ next <= Len(mine)
     /\ indirection_buffer' =
          Store(indirection_buffer, mine[next].index, mine[next].value)
     /\ wlog' = [wlog EXCEPT ![w] = Append(@, mine[next])]
     /\ pc' = IF \A v \in Writers : Len(wlog'[v]) = Len(call.shards[v])
                THEN "shared" ELSE "sharing"
     /\ UNCHANGED <<op, call, kvars>>

ShardInit ==
  /\ pc = "idle"
  /\ op \in ShardOperators
  /\ call = NoCall
  /\ indirection_buffer = <<>>
  /\ wlog = <<>>
  /\ KernelNotCalled

ShardNext ==
  \/ ShareConv2d
  \/ ShareDeconv2d
  \/ \E w \in Writers : WriterStore(w)

ShardSpec == ShardInit /\ [][ShardNext]_vars

---------------------------------------------------------------------------
(* Properties of the conv and deconv plans.                                *)

Planned(kind) == pc = "planned" /\ call.kind = kind

(* The slot the plan layout gives to real output pixel (oy, ox) of         *)
(* (group g, image n) at kernel site (ky, kx).                             *)
TiledSlot(g, n, t, ky, kx) ==
  LET MR == call.output_tile_size
  IN (g * op.batch_size + n) * call.tiled_output_size * kernel_size(op)
     + (MR * (t \div MR)) * kernel_size(op)
     + (ky * op.kernel_width + kx) * MR
     + (t % MR)

PixelAddress(g, n, iy, ix) ==
  op.input
  + ((n * op.input_height + iy) * op.input_width + ix) * op.input_pixel_stride
  + g * op.group_input_channels

OutputPixels == (0..(op.output_height - 1)) \X (0..(op.output_width - 1))
KernelSites == (0..(op.kernel_height - 1)) \X (0..(op.kernel_width - 1))
GroupImages == (0..(op.groups - 1)) \X (0..(op.batch_size - 1))

(* The slots the planner call wrote.                                       *)
WrittenIndices == {wlog[j].index : j \in DOMAIN wlog}

(* C1: direct-conv plan coverage.  After qnnp_indirection_init_conv2d the  *)
(* slot of every (group, image, real output pixel, kernel site) holds the  *)
(* address of input pixel (iy, ix) = (oy*sH + ky*dH - pT,                  *)
(* ox*sW + kx*dW - pL), computed in signed integers, when 0 <= iy < H and  *)
(* 0 <= ix < W, and the zero pointer otherwise.  On the 3x3, padding 1,    *)
(* 4x4 scenario output pixel (0,0) has 4 input pointers and 5 zero         *)
(* entries, the zeros being the sites with ky = 0 or kx = 0.               *)
C1_ConvCoverage ==
  Planned("conv2d") =>
    /\ \A gn \in GroupImages, o \in OutputPixels, k \in KernelSites :
         LET iy == o[1] * op.stride_height + k[1] * op.dilation_height
                     - op.input_padding_top
             ix == o[2] * op.stride_width + k[2] * op.dilation_width
                     - op.input_padding_left
             slot == TiledSlot(gn[1], gn[2], o[1] * op.output_width + o[2],
                               k[1], k[2])
         IN indirection_buffer[slot] =
              IF 0 <= iy /\ iy < op.input_height /\ 0 <= ix
                   /\ ix < op.input_width
                THEN PixelAddress(gn[1], gn[2], iy, ix)
                ELSE op.zero_pointer
    /\ op = Scenario3x3Operator =>
         LET zeros == {k \in KernelSites :
                         indirection_buffer[TiledSlot(0, 0, 0, k[1], k[2])]
                           = op.zero_pointer}
         IN /\ Cardinality(zeros) = 5
            /\ Cardinality(KernelSites \ zeros) = 4
            /\ zeros = {k \in KernelSites : k[1] = 0 \/ k[2] = 0}

(* A conv plan with two groups and two images in which a site above the    *)
(* input (iy < 0), a site below it (iy >= H) and a site inside it occur.   *)
C1_Witness ==
  /\ Planned("conv2d")
  /\ op.groups = 2 /\ op.batch_size = 2
  /\ \E o \in OutputPixels, k \in KernelSites :
       o[1] * op.stride_height + k[1] * op.dilation_height
         < op.input_padding_top
  /\ \E o \in OutputPixels, k \in KernelSites :
       o[1] * op.stride_height + k[1] * op.dilation_height
         - op.input_padding_top >= op.input_height
  /\ \E i \in DOMAIN indirection_buffer :
       indirection_buffer[i] >= op.input + op.group_input_channels

(* The 3x3 scenario planned.                                               *)
C1_ScenarioWitness == Planned("conv2d") /\ op = Scenario3x3Operator

(* C5: transposed-conv stride test.  After qnnp_indirection_init_deconv2d  *)
(* the slot of (group, image, real output pixel, kernel site) holds the    *)
(* input address of (iy, ix) exactly when y = oy + pT - ky*dH and          *)
(* x = ox + pL - kx*dW, as signed integers, are both >= 0, y is a multiple *)
(* of sH with iy = y/sH < H and x a multiple of sW with ix = x/sW < W;     *)
(* otherwise it holds the zero pointer.                                    *)
C5_DeconvStrideTest ==
  Planned("deconv2d") =>
    \A gn \in GroupImages, o \in OutputPixels, k \in KernelSites :
      LET y == o[1] + op.input_padding_top - k[1] * op.dilation_height
          x == o[2] + op.input_padding_left - k[2] * op.dilation_width
          slot == TiledSlot(gn[1], gn[2], o[1] * op.output_width + o[2],
                            k[1], k[2])
          reachable ==
            /\ y >= 0 /\ x >= 0
            /\ y % op.stride_height = 0 /\ y \div op.stride_height < op.input_height
            /\ x % op.stride_width = 0 /\ x \div op.stride_width < op.input_width
      IN indirection_buffer[slot] =
           IF reachable
             THEN PixelAddress(gn[1], gn[2], y \div op.stride_height,
                               x \div op.stride_width)
             ELSE op.zero_pointer

(* A deconv plan with stride 2 in which the subtraction wraps at a site    *)
(* whose wrapped y is a multiple of the stride, and a reachable site.      *)
C5_Witness ==
  /\ Planned("deconv2d")
  /\ op.stride_height = 2
  /\ \E o \in OutputPixels, k \in KernelSites :
       /\ o[1] + op.input_padding_top < k[1] * op.dilation_height
       /\ (o[1] + op.input_padding_top - k[1] * op.dilation_height) % 2 = 0
  /\ \E i \in DOMAIN indirection_buffer :
       indirection_buffer[i] # op.zero_pointer

(* C7: tile-tail padding.  In a conv or deconv plan with T > H'*W', the    *)
(* entry of every padded tiled position t, H'*W' <= t < T, equals the      *)
(* entry of the last real output pixel H'*W' - 1 at the same kernel site.  *)
C7_TileTail ==
  (Planned("conv2d") \/ Planned("deconv2d")) =>
    \A gn \in GroupImages, k \in KernelSites :
      \A t \in output_size(op)..(call.tiled_output_size - 1) :
        indirection_buffer[TiledSlot(gn[1], gn[2], t, k[1], k[2])]
          = indirection_buffer[TiledSlot(gn[1], gn[2], output_size(op) - 1,
                                         k[1], k[2])]

(* A conv plan with padded positions whose last real pixel has both an     *)
(* input pointer and a zero entry among its sites.                         *)
C7_Witness ==
  /\ Planned("conv2d")
  /\ call.tiled_output_size > output_size(op) + 1
  /\ \E k \in KernelSites :
       indirection_buffer[TiledSlot(0, 0, call.tiled_output_size - 1,
                                    k[1], k[2])] = op.zero_pointer
  /\ \E k \in KernelSites :
       indirection_buffer[TiledSlot(0, 0, call.tiled_output_size - 1,
                                    k[1], k[2])] # op.zero_pointer

(* C9: a conv or deconv plan writes every slot of                          *)
(* [0, G*N*T*kH*kW) exactly once and no slot outside that range.           *)
C9_ConvWritesOnce ==
  (Planned("conv2d") \/ Planned("deconv2d")) =>
    LET capacity == ConvCapacity(op, call.tiled_output_size)
    IN /\ \A k \in DOMAIN wlog : wlog[k].index \in 0..(capacity - 1)
       /\ WrittenIndices = 0..(capacity - 1)
       /\ Len(wlog) = capacity

(* A plan of more than one group, image, tile and kernel site.             *)
C9_Witness ==
  /\ Planned("deconv2d")
  /\ op.groups = 2 /\ op.batch_size = 2
  /\ op.kernel_height = 2 /\ op.kernel_width = 1
  /\ call.tiled_output_size > call.output_tile_size
  /\ Len(wlog) = ConvCapacity(op, call.tiled_output_size)

---------------------------------------------------------------------------
(* Properties of the depthwise and max-pool plans.                         *)

PlannedImages == {n \in 0..(op.batch_size - 1) : n >= call.batch_start}

(* The slot the plan layout gives to output pixel (oy, ox) of image n at   *)
(* site (ky, kx).                                                          *)
SteppedSlot(n, oy, ox, ky, kx) ==
  (n * op.output_height + oy) * call.step_height
  + ox * call.step_width * op.kernel_height
  + kx * op.kernel_height
  + ky

Clamp(v, lo, hi) == IF v < lo THEN lo ELSE IF v > hi THEN hi ELSE v

ClampedAddress(n, o, k) ==
  LET iy == Clamp(o[1] * op.stride_height + k[1] * op.dilation_height
                    - op.input_padding_top, 0, op.input_height - 1)
      ix == Clamp(o[2] * op.stride_width + k[2] * op.dilation_width
                    - op.input_padding_left, 0, op.input_width - 1)
  IN op.input
     + ((n * op.input_height + iy) * op.input_width + ix)
         * op.input_pixel_stride

(* The addresses of the pixels of the planned images.                      *)
PlannedPixelAddresses ==
  {op.input + ((n * op.input_height + iy) * op.input_width + ix)
                * op.input_pixel_stride :
     n \in PlannedImages, iy \in 0..(op.input_height - 1),
     ix \in 0..(op.input_width - 1)}

(* C6 as stated: after qnnp_indirection_init_maxpool2d, for every          *)
(* step_width, the slot of (image, output pixel, pooling site) holds the   *)
(* address of the pixel at the clamped coordinates of that site.  (Slots   *)
(* beyond the allocated capacity are left out of the comparison.)          *)
C6_MaxpoolSlotAnyStep ==
  Planned("maxpool2d") =>
    \A n \in PlannedImages, o \in OutputPixels, k \in KernelSites :
      LET slot == SteppedSlot(n, o[1], o[2], k[1], k[2])
      IN slot \in DOMAIN indirection_buffer =>
           indirection_buffer[slot] = ClampedAddress(n, o, k)

(* C6, amended: max-pool plan clamping.  When step_width >= kW (no two     *)
(* sites of an output row share a slot) the slot of every (image >=        *)
(* batch_start, output pixel, pooling site) holds the address of input     *)
(* pixel (min(max(oy*sH + ky*dH - pT, 0), H-1),                            *)
(* min(max(ox*sW + kx*dW - pL, 0), W-1)) of that image; and for every      *)
(* step_width each value written, hence each entry written, is the         *)
(* address of a pixel of a planned image and never the zero pointer.       *)
C6_MaxpoolClamping ==
  Planned("maxpool2d") =>
    /\ call.step_width >= op.kernel_width =>
         \A n \in PlannedImages, o \in OutputPixels, k \in KernelSites :
           LET slot == SteppedSlot(n, o[1], o[2], k[1], k[2])
           IN /\ slot \in DOMAIN indirection_buffer
              /\ indirection_buffer[slot] = ClampedAddress(n, o, k)
    /\ \A j \in DOMAIN wlog :
         /\ wlog[j].value # op.zero_pointer
         /\ wlog[j].value \in PlannedPixelAddresses
    /\ \A i \in DOMAIN indirection_buffer :
         indirection_buffer[i] # Unwritten =>
           /\ indirection_buffer[i] # op.zero_pointer
           /\ indirection_buffer[i] \in PlannedPixelAddresses

(* A max-pool plan with step_width >= kW in which a site above the input   *)
(* and a site below it are clamped.                                        *)
C6_Witness ==
  /\ Planned("maxpool2d")
  /\ call.step_width >= op.kernel_width
  /\ call.batch_start = 0 /\ op.batch_size = 2
  /\ \E o \in OutputPixels, k \in KernelSites :
       o[1] * op.stride_height + k[1] * op.dilation_height
         < op.input_padding_top
  /\ \E o \in OutputPixels, k \in KernelSites :
       o[1] * op.stride_height + k[1] * op.dilation_height
         - op.input_padding_top >= op.input_height
  /\ \E o \in OutputPixels, k \in KernelSites :
       o[2] * op.stride_width + k[2] * op.dilation_width
         - op.input_padding_left >= op.input_width

(* C10 as stated: a depthwise or max-pool plan, for every step_width >= 1  *)
(* and step_height >= W'*step_width*kH, writes no slot twice.              *)
C10_StepWritesOnceAnyStep ==
  (Planned("dwconv2d") \/ Planned("maxpool2d")) =>
    Cardinality(WrittenIndices) = Len(wlog)

(* C10, amended: a depthwise or max-pool plan with step_width >= kW and    *)
(* step_height >= W'*step_width*kH maps no two distinct tuples             *)
(* (image, oy, ky, ox, kx) to the same slot: every written slot is         *)
(* written exactly once.                                                   *)
C10_StepWritesOnce ==
  ((Planned("dwconv2d") \/ Planned("maxpool2d"))
     /\ call.step_width >= op.kernel_width) =>
    /\ Cardinality(WrittenIndices) = Len(wlog)
    /\ Len(wlog) = Cardinality(PlannedImages) * op.output_height
                     * op.output_width * kernel_size(op)

(* A depthwise plan of two images, two output rows and columns and a 2x2   *)
(* kernel with step_width = kW and the tight step_height.                  *)
C10_Witness ==
  /\ Planned("dwconv2d")
  /\ call.batch_start = 0 /\ op.batch_size = 2
  /\ op.output_height = 2 /\ op.output_width = 2
  /\ op.kernel_height = 2 /\ op.kernel_width = 2
  /\ call.step_width = 2
  /\ call.step_height = op.output_width * call.step_width * op.kernel_height
  /\ Len(wlog) = 32

---------------------------------------------------------------------------
(* The 8x8 indirect GEMM micro-kernel, q8conv_ukernel_8x8__neon.           *)
(*                                                                         *)
(* A NEON vector is modelled lane by lane: the operators below named after *)
(* intrinsics give the value of one lane.  The sixteen accumulator vectors *)
(* vacc0x0123 .. vacc7x4567 are the function vacc: row -> lane -> int32.   *)

MR == 8
NR == 8
Rows == 0..(MR - 1)
Lanes == 0..(NR - 1)

INT32_MAX == 2147483647
INT32_MIN == -INT32_MAX - 1
INT16_MAX == 32767
INT16_MIN == -INT16_MAX - 1
UINT8_MAX == 255

(* Two's complement addition of int32 lanes (the sum wraps).               *)
Add32(x, y) ==
  IF y >= 0 /\ x > INT32_MAX - y
    THEN INT32_MIN + (y - (INT32_MAX - x) - 1)
    ELSE IF y < 0 /\ x < INT32_MIN - y
           THEN INT32_MAX - ((INT32_MIN - y) - (x + 1))
           ELSE x + y

(* vmovl_u8: a byte widened to 16 bits keeps its value.                    *)
vmovl_u8(x) == x

(* Mutant: the operands of the difference are exchanged.                   *)
vsubl_u8_Swapped(x, y) == y - x

(* vsubl_u8: the widened difference of two bytes, read as int16.           *)
vsubl_u8(x, y) == x - y

(* vmlal_lane_s16: acc + b * a[lane], in int32.                            *)
vmlal_lane_s16(acc, b, a_lane) == Add32(acc, b * a_lane)

(* Mutant: the amount is taken as a left shift whatever its sign.          *)
vshl_u64_Left(v, shift) ==
  LET n == (IF shift < 0 THEN -shift ELSE shift) \div 8
  IN [l \in Lanes |-> IF l - n >= 0 THEN v[l - n] ELSE 0]

(* vshl_u64 of a vector of eight bytes by a multiple of 8 bits: a negative *)
(* amount shifts right, which moves the bytes towards lane 0 and fills the *)
(* high lanes with zero; a positive amount shifts left.                    *)
vshl_u64(v, shift) ==
  LET n == (IF shift < 0 THEN -shift ELSE shift) \div 8
  IN IF shift < 0
       THEN [l \in Lanes |-> IF l + n <= 7 THEN v[l + n] ELSE 0]
       ELSE [l \in Lanes |-> IF l - n >= 0 THEN v[l - n] ELSE 0]

(* vqrdmulhq_s32: the saturating rounding doubling multiply returning the  *)
(* high half, floor((2*x*y + 2^31) / 2^32), for y >= 0.  The 64-bit        *)
(* product is formed from limbs of 11 bits: x = x2*2^22 + x1*2^11 + x0.    *)
Limb == 2^11

(* Mutant: the product is not doubled (the high half of x * y).            *)
vqrdmulhq_s32_NotDoubled(x, y) ==
  LET x2 == x \div (Limb * Limb)
      x1 == (x \div Limb) % Limb
      x0 == x % Limb
      y2 == y \div (Limb * Limb)
      y1 == (y \div Limb) % Limb
      y0 == y % Limb
      c0 == x0 * y0
      c1 == x0 * y1 + x1 * y0
      c2 == x0 * y2 + x1 * y1 + x2 * y0
      c3 == x1 * y2 + x2 * y1
      c4 == x2 * y2
      carry1 == c0 \div Limb
      carry2 == (c1 + carry1) \div Limb
      q0 == c2 + 2^9 + carry2
  IN (q0 \div 2^10) + 2 * c3 + 2^12 * c4

(* Mutant: the product of INT32_MIN by itself wraps (vrdmulh without       *)
(* saturation).                                                            *)
vqrdmulhq_s32_Wrapping(x, y) ==
  IF x = INT32_MIN /\ y = INT32_MIN
    THEN INT32_MIN
    ELSE LET x2 == x \div (Limb * Limb)
             x1 == (x \div Limb) % Limb
             x0 == x % Limb
             y2 == y \div (Limb * Limb)
             y1 == (y \div Limb) % Limb
             y0 == y % Limb
             c0 == x0 * y0
             c1 == x0 * y1 + x1 * y0
             c2 == x0 * y2 + x1 * y1 + x2 * y0
             c3 == x1 * y2 + x2 * y1
             c4 == x2 * y2
             carry1 == c0 \div Limb
             carry2 == (c1 + carry1) \div Limb
             q0 == c2 + 2^8 + carry2
         IN 2 * (((q0 \div 2^9) \div 2) + 2 * c3 + 2^12 * c4) + ((q0 \div 2^9) % 2)

vqrdmulhq_s32(x, y) ==
  IF x = INT32_MIN /\ y = INT32_MIN
    THEN INT32_MAX
    ELSE LET x2 == x \div (Limb * Limb)
             x1 == (x \div Limb) % Limb
             x0 == x % Limb
             y2 == y \div (Limb * Limb)
             y1 == (y \div Limb) % Limb
             y0 == y % Limb
             c0 == x0 * y0
             c1 == x0 * y1 + x1 * y0
             c2 == x0 * y2 + x1 * y1 + x2 * y0
             c3 == x1 * y2 + x2 * y1
             c4 == x2 * y2
             carry1 == c0 \div Limb
             carry2 == (c1 + carry1) \div Limb
             q0 == c2 + 2^8 + carry2
         IN 2 * (((q0 \div 2^9) \div 2) + 2 * c3 + 2^12 * c4) + ((q0 \div 2^9) % 2)

(* vceqq_s32: all ones (-1) where the lanes are equal, else 0.             *)
vceqq_s32(x, y) == IF x = y THEN -1 ELSE 0

(* Mutant: x AND mask, for x AND NOT mask.                                 *)
vbicq_s32_And(x, mask) == IF mask = 0 THEN 0 ELSE x

(* vbicq_s32 with a mask lane of all ones or zero: x AND NOT mask.         *)
vbicq_s32(x, mask) == IF mask = 0 THEN x ELSE 0

(* vsraq_n_s32: x + (y >> n), arithmetic shift, wrapping sum.              *)
vsraq_n_s32(x, y, n) ==
  Add32(x, IF n = 31 THEN (IF y < 0 THEN -1 ELSE 0) ELSE y \div 2^n)

(* Mutant: the shift right without rounding (vshlq_s32).                   *)
vrshlq_s32_Truncating(x, shift) ==
  IF shift = 0 THEN x ELSE (x \div 2^((-shift) - 1)) \div 2

(* vrshlq_s32 by a lane in [-31, 0]: the rounding shift right by -shift,   *)
(* floor((x + 2^(-shift-1)) / 2^(-shift)), formed without overflow.        *)
vrshlq_s32(x, shift) ==
  IF shift = 0
    THEN x
    ELSE LET q == x \div 2^((-shift) - 1)
         IN (q \div 2) + (((q % 2) + 1) \div 2)

(* vqmovn_s32, vqaddq_s16, vqmovun_s16: saturating narrow and add.         *)
vqmovn_s32(x) ==
  IF x > INT16_MAX THEN INT16_MAX ELSE IF x < INT16_MIN THEN INT16_MIN ELSE x

vqaddq_s16(x, y) ==
  IF x + y > INT16_MAX THEN INT16_MAX
  ELSE IF x + y < INT16_MIN THEN INT16_MIN ELSE x + y

vqmovun_s16(x) == IF x > UINT8_MAX THEN UINT8_MAX ELSE IF x < 0 THEN 0 ELSE x

vmaxq_u8(x, y) == IF x > y THEN x ELSE y
vminq_u8(x, y) == IF x < y THEN x ELSE y

---------------------------------------------------------------------------
(* The memory the micro-kernel reads.                                      *)

(* Bounds of the micro-kernel calls.                                       *)
MaxKs == 2                \* ks in 1..MaxKs

ChannelCounts == (1..9) \cup {15, 16, 17}   \* kc of the reduction calls
TileChannels == 9                           \* kc of the tile-shape calls

OutputBase == 8192
RowBytes == 24            \* bytes between the input rows of a call

(* The seed UniformSeed + b names the input memory whose every byte       *)
(* outside the zero buffer is b.                                           *)
UniformSeed == 1000
SlackSeed == 2000

(* The input memory: the zero buffer (64 bytes at ZeroBase) holds zeros,   *)
(* every other byte is a function of its address and of the data seed.     *)
(* The seed SlackSeed + 256 * kc + b names the memory of seed 1 with every  *)
(* byte outside the kc channel bytes of the input rows replaced by b.      *)
InputByte(seed, addr) ==
  IF ZeroBase <= addr /\ addr < ZeroBase + 64
    THEN 0
    ELSE IF seed >= SlackSeed
           THEN IF addr >= InputBase
                     /\ (addr - InputBase) % RowBytes < (seed - SlackSeed) \div 256
                  THEN (addr * 7 + (addr \div 8) * 5 + 29 + 3) % 256
                  ELSE (seed - SlackSeed) % 256
           ELSE IF seed >= UniformSeed
                  THEN seed - UniformSeed
                  ELSE (addr * 7 + (addr \div 8) * 5 + seed * 29 + 3) % 256

(* The byte of the weights that are all equal.                             *)
UniformWeight == 5

(* The packed weights at w: eight int32 biases (32 bytes), then one row of *)
(* eight bytes per kernel site and channel.  "zero_point": every weight is *)
(* the kernel zero point; "uniform": every weight is UniformWeight;        *)
(* "identity": the weight of (site, channel ch, column oc) is 1 when       *)
(* ch = oc and 0 otherwise; "pattern": a function of row, column, wseed.  *)
PackedBias(args, lane) == args.bias[lane + 1]

PackedWeight(args, offset, lane) ==
  LET row == (offset - 32) \div 8
  IN CASE args.weights = "zero_point" ->
            args.quantization_params.kernel_zero_point
       [] args.weights = "uniform" -> UniformWeight
       [] args.weights = "identity" ->
            IF row % args.kc = lane THEN 1 ELSE 0
       [] OTHER -> (row * 11 + lane * 3 + args.wseed * 17 + 1) % 256

(* The output memory before the call.                                      *)
OutputFill(addr) == (addr * 3 + 85) % 256

OutputRegion == (OutputBase - 4)..(OutputBase + 95)

(* union qnnp_conv_quantization_params, neon member, as the micro-kernel   *)
(* reads it.  right_shift is the shift operand of vrshlq_s32, which shifts *)
(* left: a rounding right shift by S bits is the field value -S.           *)
NeonParams(kernel_zero_point, multiplier, right_shift, output_zero_point, output_min, output_max) ==
  [kernel_zero_point |-> kernel_zero_point,
   multiplier |-> multiplier,
   right_shift |-> right_shift,
   output_zero_point |-> output_zero_point,
   output_min |-> output_min,
   output_max |-> output_max]

(* The 8*ks input-row pointers of a call.  "distinct": every row of every  *)
(* site has its own input row.  "repeat": the rows from mr on repeat the   *)
(* pointer of row mr - 1, as the planner pads a tile.                      *)
RowPointers(mode, mr, ks) ==
  [n \in 1..(MR * ks) |->
     LET site == (n - 1) \div MR
         row == (n - 1) % MR
         source == IF mode = "repeat" /\ row >= mr THEN mr - 1 ELSE row
     IN InputBase + (site * MR + source) * RowBytes]

KernelCall(mr, nr, kc, ks, mode, weights, bias, c_stride, params) ==
  [mr |-> mr, nr |-> nr, kc |-> kc, ks |-> ks,
   a |-> RowPointers(mode, mr, ks),
   weights |-> weights, bias |-> bias, seed |-> 1, wseed |-> 1,
   c |-> OutputBase, c_stride |-> c_stride,
   quantization_params |-> params]

---------------------------------------------------------------------------
(* The reduction of the micro-kernel (lines 70-458).                       *)

(* The eight vmlal_lane_s16 pairs of one weight row: every accumulator of  *)
(* row i gains vxb[j] * vxa[i][lane].                                      *)
MlalRow(args, acc, vxa, w, lane) ==
  LET vb_zero_point == args.quantization_params.kernel_zero_point
      vxb == [j \in Lanes |-> vsubl_u8(PackedWeight(args, w, j), vb_zero_point)]
  IN [i \in Rows |->
        [j \in Lanes |-> vmlal_lane_s16(acc[i][j], vxb[j], vxa[i][lane])]]

(* The weight rows lane .. count-1 of one block, each read at w and        *)
(* followed by w += 8.                                                     *)
RECURSIVE MlalLanes(_, _, _, _, _, _)
MlalLanes(args, acc, vxa, w, lane, count) ==
  IF lane >= count
    THEN acc
    ELSE MlalLanes(args, MlalRow(args, acc, vxa, w, lane), vxa, w + 8,
                   lane + 1, count)

(* The load of the full-width path: eight bytes at the row pointer.        *)
FullLoad(seed, p) == [l \in Lanes |-> vmovl_u8(InputByte(seed, p + l))]

(* The load of the tail path: eight bytes at a_i - a_predecrement, shifted *)
(* by va_shift = -8 * a_predecrement.                                      *)
TailLoad_NoPredecrement(seed, p, k) ==
  LET a_predecrement == 8 - k
      va_shift == -8 * a_predecrement
      loaded == [l \in Lanes |-> InputByte(seed, p + l)]
      shifted == vshl_u64(loaded, va_shift)
  IN [l \in Lanes |-> vmovl_u8(shifted[l])]

(* Mutant: the eight bytes loaded are not shifted.                          *)
TailLoad_Unshifted(seed, p, k) ==
  LET a_predecrement == 8 - k
      loaded == [l \in Lanes |-> InputByte(seed, (p - a_predecrement) + l)]
  IN [l \in Lanes |-> vmovl_u8(loaded[l])]

TailLoad(seed, p, k) ==
  LET a_predecrement == 8 - k
      va_shift == -8 * a_predecrement
      loaded == [l \in Lanes |-> InputByte(seed, (p - a_predecrement) + l)]
      shifted == vshl_u64(loaded, va_shift)
  IN [l \in Lanes |-> vmovl_u8(shifted[l])]

(* Mutant: the tail path consumes the eight weight rows of a full block.   *)
TailRows_FullBlock(k) == 8

(* The number of weight rows the nested tests of the tail path consume.    *)
TailRows(k) ==
  1 + (IF k >= 2
         THEN 1 + (IF k > 2
                     THEN 1 + (IF k >= 4
                                 THEN 1 + (IF k > 4
                                             THEN 1 + (IF k >= 6
                                                         THEN 1 + (IF k > 6
                                                                     THEN 1
                                                                     ELSE 0)
                                                         ELSE 0)
                                             ELSE 0)
                                 ELSE 0)
                     ELSE 0)
         ELSE 0)

(* for (; k >= 8; k -= 8): the registers after the full-width path.        *)
RECURSIVE FullPath(_, _, _, _, _)
FullPath(args, acc, ptr, w, k) ==
  IF k >= 8
    THEN FullPath(args,
                  MlalLanes(args, acc,
                            [i \in Rows |-> FullLoad(args.seed, ptr[i])],
                            w, 0, 8),
                  [i \in Rows |-> ptr[i] + 8], w + 64, k - 8)
    ELSE [vacc |-> acc, a |-> ptr, w |-> w, k |-> k]

(* Mutant: the tail path is taken for k = 0 as well.                       *)
TailTaken_Always(k) == TRUE

(* line 284: if (k != 0)                                                   *)
TailTaken(k) == k # 0

(* if (k != 0): the registers after the tail path.                         *)
TailPath(args, r) ==
  IF TailTaken(r.k)
    THEN [vacc |-> MlalLanes(args, r.vacc,
                             [i \in Rows |-> TailLoad(args.seed, r.a[i], r.k)],
                             r.w, 0, TailRows(r.k)),
          w |-> r.w + 8 * TailRows(r.k)]
    ELSE [vacc |-> r.vacc, w |-> r.w]

(* The vector loads.  A load is [from, at, bytes]: from "w" at a byte      *)
(* offset of the packed weights, or from "a" at an input address.          *)
BiasLoads ==
  <<[from |-> "w", at |-> 0, bytes |-> 16],
    [from |-> "w", at |-> 16, bytes |-> 16]>>

(* Mutant: the rows are loaded from a7 down to a0.                          *)
RowLoads_Reversed(ptr) ==
  [n \in 1..MR |-> [from |-> "a", at |-> ptr[MR - n], bytes |-> 8]]

(* vld1_u8 at each of the eight row pointers.                              *)
RowLoads(ptr) ==
  [n \in 1..MR |-> [from |-> "a", at |-> ptr[n - 1], bytes |-> 8]]

(* count times vld1_u8(w), each followed by w += 8.                        *)
WeightLoads(w, count) ==
  [n \in 1..count |-> [from |-> "w", at |-> w + 8 * (n - 1), bytes |-> 8]]

(* The loads of the full-width path, block by block.                       *)
RECURSIVE FullPathLoads(_, _, _)
FullPathLoads(ptr, w, k) ==
  IF k >= 8
    THEN RowLoads(ptr) \o WeightLoads(w, 8)
           \o FullPathLoads([i \in Rows |-> ptr[i] + 8], w + 64, k - 8)
    ELSE <<>>

(* Mutant: the tail path loads at the row pointers themselves.             *)
TailPathLoads_AtPointer(r) ==
  IF TailTaken(r.k)
    THEN RowLoads(r.a) \o WeightLoads(r.w, TailRows(r.k))
    ELSE <<>>

(* The loads of the tail path, from the registers r the full-width path    *)
(* leaves.                                                                 *)
TailPathLoads(r) ==
  IF TailTaken(r.k)
    THEN RowLoads([i \in Rows |-> r.a[i] - (8 - r.k)])
           \o WeightLoads(r.w, TailRows(r.k))
    ELSE <<>>

(* Lines 25-54: the biases are read and replicated over the eight rows.    *)
KernelEntry ==
  /\ kpc = "entry"
  /\ kpc' = "loop"
  /\ vacc' = [i \in Rows |-> [j \in Lanes |-> PackedBias(kargs, j)]]
  /\ w_pos' = 32
  /\ a_pos' = 0
  /\ ks_left' = kargs.ks
  /\ loads' = BiasLoads
  /\ tail_vxa' = <<>>
  /\ UNCHANGED <<pvars, kargs, vout, cmem, stores>>

(* Lines 70-458: one pass of the do-while loop, which consumes eight       *)
(* pointers and kc weight rows.                                            *)
KernelSite ==
  /\ kpc = "loop"
  /\ LET ptr == [i \in Rows |-> kargs.a[a_pos + i + 1]]
         full == FullPath(kargs, vacc, ptr, w_pos, kargs.kc)
         r == TailPath(kargs, full)
     IN /\ vacc' = r.vacc
        /\ w_pos' = r.w
        /\ loads' = loads \o FullPathLoads(ptr, w_pos, kargs.kc)
                          \o TailPathLoads(full)
        /\ tail_vxa' = IF TailTaken(full.k)
                    THEN [i \in Rows |-> TailLoad(kargs.seed, full.a[i], full.k)]
                    ELSE tail_vxa
  /\ a_pos' = a_pos + 8
  /\ ks_left' = SizeT(ks_left - 1)
  /\ kpc' = IF ks_left' # 0 THEN "loop" ELSE "requantize"
  /\ UNCHANGED <<pvars, kargs, vout, cmem, stores>>

---------------------------------------------------------------------------
(* Requantization (lines 460-562) and the stores (lines 564-643).          *)

(* Lines 478-495, one lane: the lane plus its sign (the lane shifted right *)
(* by 31 bits), with the sign masked to zero when the shift is zero.       *)
RequantizeCorrect(product, vright_shift) ==
  LET vzero_shift_mask == vceqq_s32(vright_shift, 0)
  IN vsraq_n_s32(product, vbicq_s32(product, vzero_shift_mask), 31)

(* Lines 460-512, one lane: the Q31 multiply, the correction of negative   *)
(* lanes when the shift is not zero, and the rounding shift.               *)
RequantizeShift_NoCorrection(acc, params) ==
  LET vmultiplier == params.multiplier
      vright_shift == params.right_shift
      product == vqrdmulhq_s32(acc, vmultiplier)
  IN vrshlq_s32(product, vright_shift)

RequantizeShift(acc, params) ==
  LET vmultiplier == params.multiplier
      vright_shift == params.right_shift
      product == vqrdmulhq_s32(acc, vmultiplier)
      adjusted == RequantizeCorrect(product, vright_shift)
  IN vrshlq_s32(adjusted, vright_shift)

(* Lines 514-562, one lane: narrow to int16, add the output zero point,    *)
(* narrow to uint8, clamp.                                                 *)
RequantizeNarrow(x, params) ==
  LET voutput_zero_point == params.output_zero_point
      voutput_min == params.output_min
      voutput_max == params.output_max
      vacc16 == vqaddq_s16(vqmovn_s32(x), voutput_zero_point)
  IN vminq_u8(vmaxq_u8(vqmovun_s16(vacc16), voutput_min), voutput_max)

KernelRequantize ==
  /\ kpc = "requantize"
  /\ kpc' = "store"
  /\ vacc' = [i \in Rows |->
               [j \in Lanes |->
                  RequantizeShift(vacc[i][j], kargs.quantization_params)]]
  /\ vout' = [i \in Rows |->
               [j \in Lanes |->
                  RequantizeNarrow(vacc'[i][j], kargs.quantization_params)]]
  /\ UNCHANGED <<pvars, kargs, a_pos, w_pos, ks_left, cmem, stores, loads, tail_vxa>>

(* Lines 564-592: c0 = c, and c1 .. c7 each one row further, unless the    *)
(* row is beyond mr, which gives it the pointer of the row before.         *)
RowAliased_OneLate(mr, i) == mr < i

RowAliased(mr, i) ==
  CASE i = 1 -> mr < 2
    [] i = 2 -> mr <= 2
    [] i = 3 -> mr < 4
    [] i = 4 -> mr <= 4
    [] i = 5 -> mr < 6
    [] i = 6 -> mr <= 6
    [] i = 7 -> mr # 8

RECURSIVE OutputRow(_, _)
OutputRow(args, i) ==
  IF i = 0
    THEN args.c
    ELSE IF RowAliased(args.mr, i)
           THEN OutputRow(args, i - 1)
           ELSE OutputRow(args, i - 1) + args.c_stride

(* The register pair vout{2p}x01234567_{2p+1}x01234567 and its rotation by *)
(* vextq_u8(v, v, n).                                                      *)
OutputPair(out, p) ==
  [l \in 0..15 |-> IF l < 8 THEN out[2 * p][l] ELSE out[2 * p + 1][l - 8]]

vextq_u8(v, n) == [l \in 0..15 |-> v[(l + n) % 16]]

(* Mutant: the rows of a group are stored from c7 down to c0.              *)
StoreGroup_RowsDescending(args, pairs, done, width) ==
  [n \in 1..(MR * width) |->
     LET i == (MR - 1) - ((n - 1) \div width)
         b == (n - 1) % width
     IN [index |-> OutputRow(args, i) + done + b,
         value |-> pairs[i \div 2][8 * (i % 2) + b]]]

(* One group of eight stores of width bytes each, rows c0 .. c7 in order:  *)
(* row i stores the bytes of its half of its register pair at c_i + done.  *)
StoreGroup(args, pairs, done, width) ==
  [n \in 1..(MR * width) |->
     LET i == (n - 1) \div width
         b == (n - 1) % width
     IN [index |-> OutputRow(args, i) + done + b,
         value |-> pairs[i \div 2][8 * (i % 2) + b]]]

(* Lines 593-643: eight bytes per row when nr = 8; otherwise groups of 4,  *)
(* 2 and 1 bytes, the registers rotated after each group.                  *)
KernelStores(args, out) ==
  LET pairs0 == [p \in 0..3 |-> OutputPair(out, p)]
      nr0 == args.nr
      group4 == IF nr0 >= 4 THEN StoreGroup(args, pairs0, 0, 4) ELSE <<>>
      pairs1 == IF nr0 >= 4
                  THEN [p \in 0..3 |-> vextq_u8(pairs0[p], 4)] ELSE pairs0
      done1 == IF nr0 >= 4 THEN 4 ELSE 0
      nr1 == IF nr0 >= 4 THEN nr0 - 4 ELSE nr0
      group2 == IF nr1 >= 2 THEN StoreGroup(args, pairs1, done1, 2) ELSE <<>>
      pairs2 == IF nr1 >= 2
                  THEN [p \in 0..3 |-> vextq_u8(pairs1[p], 2)] ELSE pairs1
      done2 == IF nr1 >= 2 THEN done1 + 2 ELSE done1
      nr2 == IF nr1 >= 2 THEN nr1 - 2 ELSE nr1
      group1 == IF nr2 # 0 THEN StoreGroup(args, pairs2, done2, 1) ELSE <<>>
  IN IF args.nr = 8
       THEN StoreGroup(args, pairs0, 0, 8)
       ELSE group4 \o group2 \o group1

KernelStore ==
  /\ kpc = "store"
  /\ kpc' = "done"
  /\ stores' = KernelStores(kargs, vout)
  /\ cmem' = ApplyWrites(cmem, stores')
  /\ UNCHANGED <<pvars, kargs, vacc, a_pos, w_pos, ks_left, vout, loads, tail_vxa>>

---------------------------------------------------------------------------
(* Micro-kernel calls.                                                     *)

(* The biases of a call: the accumulator grid of the requantization test,  *)
(* values whose halves are ties of a shift by 7, and small values.         *)
GridBias == <<INT32_MIN, -(2^30), -1, 0, 1, 2^30, INT32_MAX, 1000>>
TieBias == <<-128, -64, -192, 64, 128, 192, -100000, 100000>>
SmallBias == <<0, 1, -1, 100, -100, 5000, -5000, 77>>

Multipliers == {1, 2^29, 2^30, INT32_MAX}
RightShifts == {0, 1, 7, 15, 31}
ZeroPoints == {INT16_MIN, 0, 128, INT16_MAX}
ClampRanges == {<<0, 255>>, <<10, 200>>}
TileShapes == {<<8, 8>>, <<5, 3>>, <<1, 1>>, <<3, 5>>, <<8, 7>>, <<5, 8>>}
PointerModes == {"distinct", "repeat"}

(* The parameters of the calls that vary the shape of the tile.            *)
ShapeParams == NeonParams(119, 1395864371, -11, 120, 0, 255)

(* Every tile shape mr x nr, with one full block and a tail of channels.   *)
ShapeCalls ==
  {KernelCall(mr, nr, TileChannels, ks, mode, "pattern", SmallBias, c_stride, ShapeParams) :
     mr \in 1..MR, nr \in 1..NR, ks \in 1..MaxKs, mode \in PointerModes,
     c_stride \in {8, 11}}

(* Every channel count, on the tile shapes of the partial-tile tests.      *)
ReductionCalls ==
  {KernelCall(s[1], s[2], kc, ks, mode, "pattern", SmallBias, s[2], ShapeParams) :
     s \in TileShapes, kc \in ChannelCounts, ks \in 1..MaxKs,
     mode \in PointerModes}

(* Every requantization parameter, on accumulators equal to the biases     *)
(* (weights at the kernel zero point) and on accumulators that add a       *)
(* reduction to them.                                                      *)
RequantCalls ==
  {KernelCall(8, 8, 1, 1, "distinct", weights, bias, 8, NeonParams(119, m, -s, z, r[1], r[2])) :
     weights \in {"zero_point", "pattern"}, bias \in {GridBias, TieBias},
     m \in Multipliers, s \in RightShifts, z \in ZeroPoints,
     r \in ClampRanges}

(* No channels: the calls of the bias-only law.                            *)
BiasOnlyParams == {ShapeParams, NeonParams(119, 2^30, -7, 128, 0, 255)}

BiasOnlyCalls ==
  {KernelCall(s[1], s[2], 0, ks, "repeat", "pattern", bias, 8, params) :
     s \in TileShapes, ks \in 1..MaxKs,
     bias \in {GridBias, TieBias, SmallBias}, params \in BiasOnlyParams}

ZeroBias == <<0, 0, 0, 0, 0, 0, 0, 0>>

(* Identity weights on equal activation bytes, with kernel_zero_point = 0  *)
(* and bias = 0: the calls of the identity-weight law.                     *)
IdentityCalls ==
  {[KernelCall(s[1], s[2], kc, ks, "distinct", "identity", ZeroBias, 8, NeonParams(0, 2^30, -1, 0, 0, 255)) EXCEPT !.seed = UniformSeed + b] :
     s \in {<<8, 8>>, <<5, 3>>}, kc \in {1, 3, 8, 9, 17}, ks \in 1..MaxKs,
     b \in {1, 3, 255}}

(* Scenario 1: one site of 8 channels, activations 3, weights 5,           *)
(* kernel_zero_point = 0, bias = 0, multiplier = 1 << 30,                  *)
(* output_zero_point = 0, output range 0..255, mr = 1, nr = 8; with the    *)
(* right shift of 30 bits and with none.                                   *)
ScenarioShifts == {30, 0}

ScenarioCalls ==
  {[KernelCall(1, 8, 8, 1, mode, "uniform", ZeroBias, 8, NeonParams(0, 2^30, -shift, 0, 0, 255)) EXCEPT !.seed = UniformSeed + 3] :
     mode \in PointerModes, shift \in ScenarioShifts}

(* The operands at the edges of the int32 range: accumulators equal to the *)
(* biases, multiplied by multipliers of either sign, with no shift.        *)
EdgeBias ==
  <<INT32_MIN, INT32_MIN + 1, INT32_MAX, INT32_MAX - 1, -1, 0, 1, -(2^30)>>

EdgeMultipliers == {INT32_MIN, INT32_MIN + 1, -(2^30), -1, 1, INT32_MAX}

EdgeCalls ==
  {KernelCall(8, 8, 1, 1, "distinct", "zero_point", bias, 8, NeonParams(119, m, 0, 0, 0, 255)) :
     bias \in {EdgeBias, GridBias}, m \in EdgeMultipliers}

(* Calls on the memory of seed 1 and on memories that agree with it on the *)
(* kc channel bytes of every input row and hold another byte elsewhere.    *)
SlackFills == {0, 77, 255}
SlackChannels == {1, 3, 7, 9}

SlackCalls ==
  {[KernelCall(s[1], s[2], kc, ks, "distinct", "pattern", SmallBias, 8, ShapeParams) EXCEPT !.seed = SlackSeed + 256 * kc + b] :
     s \in {<<8, 8>>, <<5, 3>>}, kc \in SlackChannels, ks \in 1..MaxKs,
     b \in SlackFills}

NoOperator == [groups |-> 0]

KernelInit ==
  /\ pc = "idle"
  /\ op = NoOperator
  /\ call = NoCall
  /\ indirection_buffer = <<>>
  /\ wlog = <<>>
  /\ kpc = "entry"
  /\ kargs \in ShapeCalls \cup ReductionCalls \cup RequantCalls
                \cup BiasOnlyCalls \cup IdentityCalls \cup ScenarioCalls
                \cup EdgeCalls \cup SlackCalls
  /\ vacc = <<>>
  /\ a_pos = 0
  /\ w_pos = 0
  /\ ks_left = 0
  /\ vout = <<>>
  /\ cmem = [addr \in OutputRegion |-> OutputFill(addr)]
  /\ stores = <<>>
  /\ loads = <<>>
  /\ tail_vxa = <<>>

KernelNext == KernelEntry \/ KernelSite \/ KernelRequantize \/ KernelStore

KernelSpec == KernelInit /\ [][KernelNext]_vars

---------------------------------------------------------------------------
(* Properties of the micro-kernel.                                         *)

(* The scalar reference accumulator of output (row i, column j): the bias  *)
(* plus the products of the channels at the pointers of row i with the     *)
(* weights of column j less the kernel zero point, in int32.               *)
RECURSIVE ReferenceSum(_, _, _, _)
ReferenceSum(args, i, j, n) ==
  IF n = 0
    THEN 0
    ELSE LET site == (n - 1) \div args.kc
             ch == (n - 1) % args.kc
             x == InputByte(args.seed, args.a[MR * site + i + 1] + ch)
             b == PackedWeight(args, 32 + 8 * (n - 1), j)
                    - args.quantization_params.kernel_zero_point
         IN ReferenceSum(args, i, j, n - 1) + x * b

ReferenceAccumulator(args, i, j) ==
  Add32(PackedBias(args, j), ReferenceSum(args, i, j, args.ks * args.kc))

Reference(args, i, j) ==
  RequantizeNarrow(
    RequantizeShift(ReferenceAccumulator(args, i, j), args.quantization_params),
    args.quantization_params)

OutputByte(i, j) == cmem[kargs.c + i * kargs.c_stride + j]

(* C2 as stated: after the call the output byte at row i < mr, column      *)
(* j < nr is the scalar reference computed from the pointers of row i,     *)
(* for any 8*ks pointers.                                                  *)
C2_ResultFromOwnRow ==
  kpc = "done" =>
    \A i \in 0..(kargs.mr - 1), j \in 0..(kargs.nr - 1) :
      OutputByte(i, j) = Reference(kargs, i, j)

(* C2, amended: after a call with c_stride >= nr, for every mr, nr in      *)
(* 1..8, kc >= 1 and ks >= 1, the output byte at row i < mr - 1, column    *)
(* j < nr is the scalar reference computed from the pointers of row i;     *)
(* the byte at row mr - 1 is the scalar reference computed from the        *)
(* pointers of row 7, a[8*s+7], whose stores are the last to that row.     *)
C2_KernelResult ==
  kpc = "done" =>
    \A i \in 0..(kargs.mr - 1), j \in 0..(kargs.nr - 1) :
      OutputByte(i, j)
        = Reference(kargs, IF i = kargs.mr - 1 THEN MR - 1 ELSE i, j)

(* A finished call on a partial tile with a full block and a tail of       *)
(* channels at each of two sites, whose row 7 reads other input than its   *)
(* last real row.                                                          *)
C2_Witness ==
  /\ kpc = "done"
  /\ kargs.mr = 5 /\ kargs.nr = 3
  /\ kargs.kc > 8 /\ kargs.kc % 8 # 0 /\ kargs.ks = 2
  /\ \E j \in 0..(kargs.nr - 1) :
       Reference(kargs, kargs.mr - 1, j) # Reference(kargs, MR - 1, j)
  /\ \E j \in 0..(kargs.nr - 1) :
       OutputByte(0, j) \notin {kargs.quantization_params.output_min,
                                kargs.quantization_params.output_max}

(* The addresses of the mr x nr output block.                              *)
StoreRectangle ==
  {kargs.c + i * kargs.c_stride + j :
     i \in 0..(kargs.mr - 1), j \in 0..(kargs.nr - 1)}

StoredAddresses == {stores[n].index : n \in DOMAIN stores}

(* C3: store rectangle.  The addresses one call stores to are exactly      *)
(* c + i*c_stride + j for i < mr, j < nr, which are mr*nr distinct bytes,  *)
(* and every other byte of the output memory keeps its pre-call value.     *)
C3_StoreRectangle ==
  kpc = "done" =>
    /\ StoredAddresses = StoreRectangle
    /\ Cardinality(StoreRectangle) = kargs.mr * kargs.nr
    /\ \A addr \in OutputRegion \ StoreRectangle :
         cmem[addr] = OutputFill(addr)

(* The finished call with mr = 5, nr = 3: rows 5..7 share the pointer of   *)
(* row 4 and the stores are those of the groups of 2 and 1 bytes.          *)
C3_Witness ==
  /\ kpc = "done"
  /\ kargs.mr = 5 /\ kargs.nr = 3 /\ kargs.c_stride = 11
  /\ Len(stores) = MR * kargs.nr
  /\ \E addr \in StoreRectangle : cmem[addr] # OutputFill(addr)

---------------------------------------------------------------------------
(* The requantization pipeline as the specification states it.             *)

(* The rounding right shift by S: to the nearest, ties away from zero.     *)
round_rshift(x, S) ==
  IF S = 0
    THEN x
    ELSE LET magnitude == IF x < 0 THEN -x ELSE x
             halves == magnitude \div 2^(S - 1)
             rounded == (halves \div 2) + (halves % 2)
         IN IF x < 0 THEN -rounded ELSE rounded

sat_i16(x) ==
  IF x > INT16_MAX THEN INT16_MAX ELSE IF x < INT16_MIN THEN INT16_MIN ELSE x

sat_u8(x) == IF x > UINT8_MAX THEN UINT8_MAX ELSE IF x < 0 THEN 0 ELSE x

(* sat_i16(x + Z) with the sum formed exactly, for Z an int16.             *)
sat_i16_sum(x, Z) ==
  IF x >= 2^17 THEN INT16_MAX
  ELSE IF x <= -(2^17) THEN INT16_MIN ELSE sat_i16(x + Z)

(* out(a) of the stated invariant, for the parameters of a call.           *)
StatedOutput(acc, params) ==
  LET shifted == round_rshift(vqrdmulhq_s32(acc, params.multiplier),
                              -params.right_shift)
  IN Clamp(sat_u8(sat_i16_sum(shifted, params.output_zero_point)),
           params.output_min, params.output_max)

(* out(a) with the two signed-16 saturations of the pipeline.              *)
TwiceSaturatedOutput(acc, params) ==
  LET shifted == round_rshift(vqrdmulhq_s32(acc, params.multiplier),
                              -params.right_shift)
  IN Clamp(sat_u8(sat_i16(sat_i16(shifted) + params.output_zero_point)),
           params.output_min, params.output_max)

(* C4 as stated: the byte of every lane after requantization is            *)
(* clamp(sat_u8(sat_i16(round_rshift(sat_qrdmulh(a, M), S) + Z)), lo, hi)  *)
(* of its accumulator a, the sum with Z formed exactly before one          *)
(* signed-16 saturation.                                                   *)
C4_SingleSaturation ==
  [][kpc = "requantize" =>
       \A i \in Rows, j \in Lanes :
         vout'[i][j] = StatedOutput(vacc[i][j], kargs.quantization_params)]_vars

(* C4, amended: for every accumulator a, M in (0, 2^31), S in [0, 31], Z   *)
(* in [-32768, 32767] and lo <= hi in [0, 255], the byte of every lane     *)
(* after requantization is clamp(sat_u8(sat_i16(sat_i16(round_rshift(      *)
(* sat_qrdmulh(a, M), S)) + Z)), lo, hi): the shifted value is saturated   *)
(* to int16 before Z is added with a second signed-16 saturation.          *)
C4_Requantization ==
  [][kpc = "requantize" =>
       \A i \in Rows, j \in Lanes :
         vout'[i][j]
           = TwiceSaturatedOutput(vacc[i][j], kargs.quantization_params)]_vars

(* Requantized lanes of the tie accumulators -128 and 128 under M = 2^30,  *)
(* S = 7 and Z = 128: -0.5 rounds to -1 and 0.5 to 1.                      *)
C4_Witness ==
  /\ kpc = "store"
  /\ kargs.bias = TieBias /\ kargs.weights = "zero_point"
  /\ kargs.quantization_params.multiplier = 2^30
  /\ kargs.quantization_params.right_shift = -7
  /\ kargs.quantization_params.output_zero_point = 128
  /\ vout[0][0] = 127 /\ vout[0][4] = 129

---------------------------------------------------------------------------
(* A conv plan with tiles of MR pixels, and the micro-kernel on one tile.  *)

(* The geometries of the tiled convolutions: a 3x3 window with padding 1   *)
(* on a 3x4 input (12 pixels: a full tile and a tile of 4), a 2x2 window   *)
(* on a 3x4 input in two groups and two images (one tile of 6), and a 1x2  *)
(* window of stride 2 and dilation 2 on a 5x5 input in two images (9       *)
(* pixels: a full tile and a tile of 1).                                   *)
TileOperators ==
  {Operator([in |-> 3, out |-> 3, kernel |-> 3, stride |-> 1, dilation |-> 1,
             padding |-> 1],
            [in |-> 4, out |-> 4, kernel |-> 3, stride |-> 1, dilation |-> 1,
             padding |-> 1], 1, 1),
   Operator([in |-> 3, out |-> 2, kernel |-> 2, stride |-> 1, dilation |-> 1,
             padding |-> 0],
            [in |-> 4, out |-> 3, kernel |-> 2, stride |-> 1, dilation |-> 1,
             padding |-> 0], 2, 2),
   Operator([in |-> 5, out |-> 3, kernel |-> 1, stride |-> 2, dilation |-> 1,
             padding |-> 0],
            [in |-> 5, out |-> 3, kernel |-> 2, stride |-> 2, dilation |-> 2,
             padding |-> 1], 1, 2)}

(* The output channels of a group, all in one block of nr columns.         *)
TileWidths == {3, 5, 8}

(* The output tensor: one pixel is groups * nr bytes.                      *)
TileOutputRegion(o, nr) ==
  OutputBase..(OutputBase + o.batch_size * output_size(o) * o.groups * nr - 1)

(* The micro-kernel is dispatched on the block of (group, image) whose     *)
(* first pixel is output_tile_start: a is the block's slice of 8*ks        *)
(* pointers of the indirection buffer, mr the number of real pixels of     *)
(* the tile, c the address of the block in the output tensor.              *)
Dispatch(group, image, output_tile_start, nr) ==
  LET ks == kernel_size(op)
      c_stride == op.groups * nr
      first == (group * op.batch_size + image) * call.tiled_output_size * ks
                 + output_tile_start * ks
  IN /\ pc = "planned"
     /\ call.kind = "conv2d"
     /\ call.output_tile_size = MR
     /\ kpc = "none"
     /\ kpc' = "entry"
     /\ kargs' =
          [mr |-> min(output_size(op) - output_tile_start, MR),
           nr |-> nr,
           kc |-> op.group_input_channels,
           ks |-> ks,
           a |-> [n \in 1..(MR * ks) |-> indirection_buffer[first + n - 1]],
           weights |-> "pattern", bias |-> SmallBias, seed |-> 1,
           wseed |-> 1,
           c |-> OutputBase
                   + (image * output_size(op) + output_tile_start) * c_stride
                   + group * nr,
           c_stride |-> c_stride,
           quantization_params |-> ShapeParams,
           block |-> [group |-> group, image |-> image,
                      output_tile_start |-> output_tile_start]]
     /\ cmem' = [addr \in TileOutputRegion(op, nr) |-> OutputFill(addr)]
     /\ UNCHANGED <<pvars, vacc, a_pos, w_pos, ks_left, vout, stores, loads, tail_vxa>>

TileInit ==
  /\ pc = "idle"
  /\ op \in TileOperators
  /\ call = NoCall
  /\ indirection_buffer = <<>>
  /\ wlog = <<>>
  /\ KernelNotCalled

PlanTiles == InitConv2d(MR)

DispatchTile ==
  \E group \in 0..(op.groups - 1), image \in 0..(op.batch_size - 1),
     tile \in 0..(divide_round_up(output_size(op), MR) - 1),
     nr \in TileWidths :
    Dispatch(group, image, tile * MR, nr)

TileNext ==
  \/ PlanTiles
  \/ DispatchTile
  \/ KernelEntry
  \/ KernelSite
  \/ KernelRequantize
  \/ KernelStore

TileSpec == TileInit /\ [][TileNext]_vars

---------------------------------------------------------------------------
(* Properties of the planner with the micro-kernel.                        *)

(* The input row a convolution reads for output pixel o (flat index) of    *)
(* (group g, image n) at kernel site number site: the input pixel at       *)
(* (oy*sH + ky*dH - pT, ox*sW + kx*dW - pL) when it is inside the input,   *)
(* the zero region otherwise.                                              *)
TapAddress(g, n, o, site) ==
  LET oy == o \div op.output_width
      ox == o % op.output_width
      ky == site \div op.kernel_width
      kx == site % op.kernel_width
      iy == oy * op.stride_height + ky * op.dilation_height
              - op.input_padding_top
      ix == ox * op.stride_width + kx * op.dilation_width
              - op.input_padding_left
  IN IF 0 <= iy /\ iy < op.input_height /\ 0 <= ix /\ ix < op.input_width
       THEN PixelAddress(g, n, iy, ix)
       ELSE op.zero_pointer

(* The dispatched call with, for row i, the input rows of output pixel     *)
(* output_tile_start + i.                                                  *)
PixelCall ==
  [kargs EXCEPT
     !.a = [n \in 1..(MR * kargs.ks) |->
              TapAddress(kargs.block.group, kargs.block.image,
                         kargs.block.output_tile_start + ((n - 1) % MR),
                         (n - 1) \div MR)]]

(* C8: planner plus kernel on a tile.  After the micro-kernel has run on   *)
(* the 8*ks planned pointers of a tile of the conv plan with mr the        *)
(* number of real pixels of the tile, every output row i < mr holds the    *)
(* reference result of output pixel t0 + i; on a partial last tile         *)
(* (mr = H'*W' - t0 < 8) this includes row mr - 1, which also receives     *)
(* the stores of kernel rows mr .. 7.                                      *)
C8_PartialTile ==
  (kpc = "done" /\ Planned("conv2d")) =>
    \A i \in 0..(kargs.mr - 1), j \in 0..(kargs.nr - 1) :
      OutputByte(i, j) = Reference(PixelCall, i, j)

(* A finished call on a partial last tile that is not the first tile, of   *)
(* a plan with padded taps: the first byte of row mr - 1 was stored by     *)
(* kernel rows mr - 1 .. 7, and the row differs from the row before it.    *)
C8_Witness ==
  /\ kpc = "done" /\ Planned("conv2d")
  /\ kargs.mr < MR /\ kargs.mr > 1
  /\ kargs.block.output_tile_start > 0
  /\ kargs.block.output_tile_start + kargs.mr = output_size(op)
  /\ \E n \in DOMAIN kargs.a : kargs.a[n] = op.zero_pointer
  /\ Cardinality({n \in DOMAIN stores :
                    stores[n].index = kargs.c + (kargs.mr - 1) * kargs.c_stride})
       = MR - kargs.mr + 1
  /\ \E j \in 0..(kargs.nr - 1) :
       OutputByte(kargs.mr - 1, j) # OutputByte(kargs.mr - 2, j)

---------------------------------------------------------------------------
(* Capacity of the depthwise and max-pool plans.                           *)

StepPlanned == Planned("dwconv2d") \/ Planned("maxpool2d")

(* The output row, image * H' + output_y, whose loop iterations make the   *)
(* j-th write of a depthwise or max-pool call: the loops over kernel_y,    *)
(* output_x and kernel_x are inside the loop over output_y.                *)
WriteRow(j) ==
  call.batch_start * op.output_height
  + (j - 1) \div (op.kernel_height * op.output_width * op.kernel_width)

(* The j-th write is inside the buffer and inside the range of its row.    *)
WriteInOwnRow(j) ==
  /\ wlog[j].index < StepCapacity(op, call.step_height)
  /\ WriteRow(j) * call.step_height <= wlog[j].index
  /\ wlog[j].index < (WriteRow(j) + 1) * call.step_height

(* The slots one output row needs: the largest offset written in a row is  *)
(* (W'-1)*step_width*kH + (kW-1)*kH + kH-1.                                *)
RowExtent ==
  (op.output_width - 1) * call.step_width * op.kernel_height
  + op.kernel_width * op.kernel_height

(* C11 as stated: with step_height >= W'*step_width*kH and any             *)
(* step_width >= 1, every index a depthwise or max-pool call writes is     *)
(* below N*H'*step_height and inside the range of its own output row.      *)
C11_StatedCapacitySuffices ==
  (StepPlanned
     /\ call.step_height
          >= op.output_width * call.step_width * op.kernel_height) =>
    \A j \in DOMAIN wlog : WriteInOwnRow(j)

(* C11, amended: with step_height >= (W'-1)*step_width*kH + kW*kH and any  *)
(* step_width >= 1, every index a depthwise or max-pool call writes is     *)
(* below N*H'*step_height and inside the range                             *)
(* [(n*H'+oy)*step_height, (n*H'+oy+1)*step_height) of its own output row. *)
C11_CapacitySuffices ==
  (StepPlanned /\ call.step_height >= RowExtent) =>
    \A j \in DOMAIN wlog : WriteInOwnRow(j)

(* A max-pool plan of two images and two output rows whose step_width is   *)
(* below kW and whose step_height is exactly the extent of a row.          *)
C11_Witness ==
  /\ Planned("maxpool2d")
  /\ call.step_width < op.kernel_width
  /\ call.step_height = RowExtent
  /\ call.batch_start = 0 /\ op.batch_size = 2
  /\ op.output_height = 2 /\ op.output_width = 2
  /\ Len(wlog) = 16
  /\ wlog[Len(wlog)].index = StepCapacity(op, call.step_height) - 1

---------------------------------------------------------------------------
(* Coverage of the depthwise plan.                                         *)

(* C12: depthwise plan coverage.  After qnnp_indirection_init_dwconv2d     *)
(* with step_width >= kW, for every image n >= batch_start, output pixel   *)
(* (oy, ox) and kernel site (ky, kx), the entry at index                   *)
(* (n*H'+oy)*step_height + ox*step_width*kH + kx*kH + ky (ky varies        *)
(* fastest) is input + ((n*H+iy)*W+ix)*input_pixel_stride when             *)
(* iy = oy*sH + ky*dH - pT and ix = ox*sW + kx*dW - pL, as signed          *)
(* integers, satisfy 0 <= iy < H and 0 <= ix < W, and the zero pointer     *)
(* otherwise.                                                              *)
C12_DwconvCoverage ==
  (Planned("dwconv2d") /\ call.step_width >= op.kernel_width) =>
    \A n \in PlannedImages, o \in OutputPixels, k \in KernelSites :
      LET iy == o[1] * op.stride_height + k[1] * op.dilation_height
                  - op.input_padding_top
          ix == o[2] * op.stride_width + k[2] * op.dilation_width
                  - op.input_padding_left
          slot == (n * op.output_height + o[1]) * call.step_height
                    + o[2] * call.step_width * op.kernel_height
                    + k[2] * op.kernel_height
                    + k[1]
      IN /\ slot \in DOMAIN indirection_buffer
         /\ indirection_buffer[slot] =
              IF 0 <= iy /\ iy < op.input_height /\ 0 <= ix
                   /\ ix < op.input_width
                THEN op.input
                       + ((n * op.input_height + iy) * op.input_width + ix)
                           * op.input_pixel_stride
                ELSE op.zero_pointer

(* A depthwise plan of two images with a 2x2 kernel and step_width = kW    *)
(* in which a site left of the input, a site below it and a site of input  *)
(* row 1 of image 1 occur.                                                 *)
C12_Witness ==
  /\ Planned("dwconv2d")
  /\ call.step_width = op.kernel_width
  /\ call.batch_start = 0 /\ op.batch_size = 2
  /\ op.kernel_height = 2 /\ op.kernel_width = 2
  /\ op.input_height = 2 /\ op.input_width = 2
  /\ \E o \in OutputPixels, k \in KernelSites :
       o[2] * op.stride_width + k[2] * op.dilation_width
         < op.input_padding_left
  /\ \E o \in OutputPixels, k \in KernelSites :
       o[1] * op.stride_height + k[1] * op.dilation_height
         - op.input_padding_top >= op.input_height
  /\ \E i \in DOMAIN indirection_buffer :
       indirection_buffer[i]
         = op.input + ((1 * op.input_height + 1) * op.input_width)
                        * op.input_pixel_stride

---------------------------------------------------------------------------
(* The extent of the weight stream.                                        *)

WeightStream == SelectSeq(loads, LAMBDA l : l.from = "w")

InputStream == SelectSeq(loads, LAMBDA l : l.from = "a")

ReductionDone == kpc \in {"requantize", "store", "done"}

(* 32 + ks * (floor(kc/8)*64 + 8*(kc mod 8))                               *)
WeightExtent(kc, ks) == 32 + ks * ((kc \div 8) * 64 + 8 * (kc % 8))

(* C13: weight-stream extent.  The loads from w of one call start at       *)
(* offset 0, each starts where the one before ended (strictly increasing   *)
(* addresses, no byte read twice or skipped), none reaches the offset      *)
(* 32 + ks*(floor(kc/8)*64 + 8*(kc mod 8)), and when the reduction is over *)
(* they have read exactly the bytes below that offset, for every kc >= 0,  *)
(* ks >= 1 and mr, nr in 1..8 alike.                                       *)
C13_WeightExtent ==
  kpc # "none" =>
    LET wl == WeightStream
        extent == WeightExtent(kargs.kc, kargs.ks)
    IN /\ Len(wl) > 0 => wl[1].at = 0
       /\ \A n \in 1..(Len(wl) - 1) : wl[n + 1].at = wl[n].at + wl[n].bytes
       /\ \A n \in 1..Len(wl) : wl[n].at + wl[n].bytes <= extent
       /\ ReductionDone =>
            /\ Len(wl) > 0
            /\ wl[Len(wl)].at + wl[Len(wl)].bytes = extent
            /\ w_pos = extent

(* A finished call on a 5x3 tile with two sites of 17 channels: two full   *)
(* blocks and a tail of one channel at each site, 304 bytes in 36 loads.   *)
C13_Witness ==
  /\ kpc = "done"
  /\ kargs.mr = 5 /\ kargs.nr = 3 /\ kargs.kc = 17 /\ kargs.ks = 2
  /\ Len(WeightStream) = 36
  /\ WeightStream[36].at = 296
  /\ WeightExtent(kargs.kc, kargs.ks) = 304

---------------------------------------------------------------------------
(* Scenario 1.                                                             *)

(* The call of scenario 1 with a right shift of shift bits.                *)
Scenario1(shift) ==
  /\ kpc # "none"
  /\ kargs \in ScenarioCalls
  /\ kargs.quantization_params.right_shift = -shift

(* C14 as stated: in scenario 1 (right_shift = 30) each accumulator is     *)
(* 3*5*8 = 120 and the output is eight bytes of value 60.                  *)
C14_ScenarioSixty ==
  Scenario1(30) =>
    /\ kpc = "requantize" =>
         \A i \in Rows, j \in Lanes : vacc[i][j] = 120
    /\ kpc = "done" => \A j \in Lanes : OutputByte(0, j) = 60

(* C14, amended: in scenario 1 each accumulator is 3*5*8 = 120; the Q31    *)
(* multiply by 1 << 30 gives 60 and the rounding right shift by 30 bits    *)
(* gives 0, so the output is eight bytes of value 0; with right_shift = 0  *)
(* and everything else the same the output is eight bytes of value 60.     *)
C14_Scenario ==
  /\ (Scenario1(30) \/ Scenario1(0)) =>
       /\ kpc = "requantize" =>
            \A i \in Rows, j \in Lanes : vacc[i][j] = 120
       /\ kpc = "store" =>
            \A j \in Lanes :
              vqrdmulhq_s32(120, kargs.quantization_params.multiplier) = 60
  /\ Scenario1(30) =>
       (kpc = "done" => \A j \in Lanes : OutputByte(0, j) = 0)
  /\ Scenario1(0) =>
       (kpc = "done" => \A j \in Lanes : OutputByte(0, j) = 60)

(* Scenario 1 finished: eight bytes stored to row 0, each eight times      *)
(* (mr = 1), over the fill of the output memory.                           *)
C14_Witness ==
  /\ Scenario1(30)
  /\ kpc = "done"
  /\ kargs.mr = 1 /\ kargs.nr = 8 /\ kargs.kc = 8 /\ kargs.ks = 1
  /\ Len(stores) = 64
  /\ \A j \in Lanes : OutputFill(kargs.c + j) # 0 /\ OutputByte(0, j) = 0

---------------------------------------------------------------------------
(* Scenario 4: a 3x3 max-pool with padding 1 on a 4x4 input.               *)

(* The max-pool plan of the scenario, with a slot for every site.          *)
Scenario4 ==
  /\ Planned("maxpool2d")
  /\ op = Scenario3x3Operator
  /\ call.batch_start = 0
  /\ call.step_width >= op.kernel_width

(* The plan entry of output pixel (0, 0) at site k.                        *)
CornerEntry(k) == indirection_buffer[SteppedSlot(0, 0, 0, k[1], k[2])]

(* The sites of output pixel (0, 0) whose input coordinates fall outside   *)
(* the input.                                                              *)
CornerOutOfBounds ==
  {k \in KernelSites :
     \/ k[1] * op.dilation_height < op.input_padding_top
     \/ k[1] * op.dilation_height - op.input_padding_top >= op.input_height
     \/ k[2] * op.dilation_width < op.input_padding_left
     \/ k[2] * op.dilation_width - op.input_padding_left >= op.input_width}

(* The entries of output pixel (0, 0): nine slots, each the address of the *)
(* pixel at the clamped coordinates of its site.                           *)
CornerEntries ==
  /\ {SteppedSlot(0, 0, 0, k[1], k[2]) : k \in KernelSites} = 0..8
  /\ \A k \in KernelSites :
       /\ SteppedSlot(0, 0, 0, k[1], k[2]) \in WrittenIndices
       /\ CornerEntry(k) \in PlannedPixelAddresses
       /\ CornerEntry(k) = ClampedAddress(0, <<0, 0>>, k)

(* C15 as stated: in the 3x3 max-pool scenario the plan of output pixel    *)
(* (0,0) holds nine valid input pointers, exactly three of them for        *)
(* out-of-bounds sites, and the address of input pixel (0,0) appears       *)
(* exactly three times.                                                    *)
C15_ThreeClamped ==
  Scenario4 =>
    /\ CornerEntries
    /\ Cardinality(CornerOutOfBounds) = 3
    /\ Cardinality({k \in KernelSites : CornerEntry(k) = op.input}) = 3

(* C15, amended: in the 3x3 max-pool scenario (stride 1, dilation 1,       *)
(* pT = pL = 1, 4x4 input, step_width >= 3) the plan of output pixel (0,0) *)
(* holds nine entries, all valid input pointers; exactly five of them (the *)
(* sites with ky = 0 or kx = 0) correspond to out-of-bounds sites and hold *)
(* clamped-to-edge pointers, and the address of input pixel (0,0) appears  *)
(* exactly four times (the sites with ky <= 1 and kx <= 1).                *)
C15_FiveClamped ==
  Scenario4 =>
    /\ CornerEntries
    /\ CornerOutOfBounds = {k \in KernelSites : k[1] = 0 \/ k[2] = 0}
    /\ Cardinality(CornerOutOfBounds) = 5
    /\ {k \in KernelSites : CornerEntry(k) = op.input}
         = {k \in KernelSites : k[1] <= 1 /\ k[2] <= 1}
    /\ Cardinality({k \in KernelSites : CornerEntry(k) = op.input}) = 4

(* The scenario planned with step_width = 3: 16 output pixels of 9 sites.  *)
C15_Witness ==
  /\ Scenario4
  /\ call.step_width = 3
  /\ Len(wlog) = 144
  /\ CornerEntry(<<0, 0>>) = op.input
  /\ CornerEntry(<<2, 2>>) = op.input + 5 * op.input_pixel_stride

---------------------------------------------------------------------------
(* Scenario 3: a 2x2 stride-2 transposed convolution of a 2x2 input.       *)

Scenario3 == Planned("deconv2d") /\ op = ScenarioDeconvOperator

(* The plan entry of output pixel o at site k (one group, one image).      *)
DeconvEntry(o, k) ==
  indirection_buffer[TiledSlot(0, 0, o[1] * op.output_width + o[2],
                               k[1], k[2])]

(* The sites of output pixel o whose entry is not the zero pointer.        *)
DeconvPointerSites(o) ==
  {k \in KernelSites : DeconvEntry(o, k) # op.zero_pointer}

(* C16: in the 2x2 stride-2 transposed convolution of a 2x2 input into a   *)
(* 4x4 output (dilation 1, pT = pL = 0) the four entries of every output   *)
(* pixel are one input pointer and three zero pointers; for output (0,0)   *)
(* the pointer is at site (0,0) and is the address of input pixel (0,0).   *)
C16_DeconvScenario ==
  Scenario3 =>
    /\ Cardinality(OutputPixels) = 16 /\ Cardinality(KernelSites) = 4
    /\ \A o \in OutputPixels :
         /\ Cardinality(DeconvPointerSites(o)) = 1
         /\ \A k \in DeconvPointerSites(o) :
              DeconvEntry(o, k) \in
                {PixelAddress(0, 0, iy, ix) :
                   iy \in 0..(op.input_height - 1),
                   ix \in 0..(op.input_width - 1)}
         /\ Cardinality({k \in KernelSites :
                           DeconvEntry(o, k) = op.zero_pointer}) = 3
    /\ DeconvPointerSites(<<0, 0>>) = {<<0, 0>>}
    /\ DeconvEntry(<<0, 0>>, <<0, 0>>) = PixelAddress(0, 0, 0, 0)

(* The scenario planned in tiles of 3 (18 tiled positions of 4 sites): the *)
(* pointer of output (3,3) is at site (1,1) and addresses input (1,1).     *)
C16_Witness ==
  /\ Scenario3
  /\ call.output_tile_size = 3
  /\ Len(wlog) = 72
  /\ DeconvPointerSites(<<3, 3>>) = {<<1, 1>>}
  /\ DeconvEntry(<<3, 3>>, <<1, 1>>) = PixelAddress(0, 0, 1, 1)
  /\ DeconvEntry(<<0, 0>>, <<1, 1>>) = op.zero_pointer

---------------------------------------------------------------------------
(* The bias-only law.                                                      *)

(* A call with no channel and one site.                                    *)
BiasOnly == kpc # "none" /\ kargs.kc = 0 /\ kargs.ks = 1

(* requantize(x) under the parameters of the call.                         *)
requantize(x) == TwiceSaturatedOutput(x, kargs.quantization_params)

(* C17: bias-only law K1.  With kc = 0 and ks = 1 the micro-kernel loads   *)
(* no input byte and no weight byte beyond the 32 bias bytes, and after    *)
(* the call the output byte at (i, j), i < mr, j < nr, is                  *)
(* requantize(bias[j]): the same requantized biases in every written row.  *)
C17_BiasOnly ==
  BiasOnly =>
    /\ InputStream = <<>>
    /\ \A n \in DOMAIN WeightStream :
         WeightStream[n].at + WeightStream[n].bytes <= 32
    /\ ReductionDone => loads = BiasLoads
    /\ kpc = "done" =>
         \A i \in 0..(kargs.mr - 1), j \in 0..(kargs.nr - 1) :
           /\ OutputByte(i, j) = requantize(PackedBias(kargs, j))
           /\ OutputByte(i, j) = OutputByte(0, j)

(* A finished bias-only call on a partial tile whose requantized biases    *)
(* are not all equal and differ from the bytes the output held.            *)
C17_Witness ==
  /\ BiasOnly
  /\ kpc = "done"
  /\ kargs.mr = 5 /\ kargs.nr = 3
  /\ loads = BiasLoads
  /\ \E j \in 0..(kargs.nr - 1) : OutputByte(4, j) # OutputByte(4, 0)
  /\ \E j \in 0..(kargs.nr - 1) :
       OutputByte(4, j) # OutputFill(kargs.c + 4 * kargs.c_stride + j)

---------------------------------------------------------------------------
(* The identity-weight law.                                                *)

(* A call with kernel_zero_point = 0, bias 0, every activation byte equal  *)
(* and weight 1 from channel ch to output channel ch, 0 elsewhere, whose   *)
(* reduction is complete: vacc holds the accumulators before               *)
(* requantization.                                                         *)
IdentityReduced == kpc = "requantize" /\ kargs \in IdentityCalls

(* The activation byte of the call.                                        *)
ActivationByte == InputByte(kargs.seed, kargs.a[1])

(* C18 as stated: under identity weights the accumulator of every cell     *)
(* (i, c), c < min(kc, 8), is ks*kc*a.                                     *)
C18_IdentityTimesChannels ==
  IdentityReduced =>
    \A i \in Rows, c \in 0..(min(kargs.kc, 8) - 1) :
      vacc[i][c] = kargs.ks * kargs.kc * ActivationByte

(* C18, amended: identity-weight law K2.  With kernel_zero_point = 0, all  *)
(* biases 0, every activation byte equal to a and weights                  *)
(* w[s][ch][oc] = 1 when ch = oc and 0 otherwise at every site, the        *)
(* accumulator of every cell (i, c) with c < min(kc, 8) before             *)
(* requantization equals ks*a (each site adds the one product a*1 of       *)
(* channel c).                                                             *)
C18_IdentityWeight ==
  IdentityReduced =>
    /\ \A s \in 1..(MR * kargs.ks), l \in 0..(kargs.kc - 1) :
         InputByte(kargs.seed, kargs.a[s] + l) = ActivationByte
    /\ \A i \in Rows, c \in 0..(min(kargs.kc, 8) - 1) :
         vacc[i][c] = kargs.ks * ActivationByte

(* The accumulators of an identity call of 17 channels at two sites on     *)
(* activation bytes 255: 510 in each of the 8 columns, where ks*kc*a is    *)
(* 8670.                                                                   *)
C18_Witness ==
  /\ IdentityReduced
  /\ kargs.kc = 17 /\ kargs.ks = 2 /\ ActivationByte = 255
  /\ \A i \in Rows, c \in Lanes : vacc[i][c] = 510

---------------------------------------------------------------------------
(* Planner idempotence.                                                    *)

(* The slots written by more than one loop iteration of the call.          *)
RewrittenIndices ==
  {wlog[j].index : j \in {n \in DOMAIN wlog :
                            \E m \in DOMAIN wlog :
                              m # n /\ wlog[m].index = wlog[n].index}}

---------------------------------------------------------------------------
(* Sharding of the conv and deconv plans.                                  *)

Sharing == pc \in {"sharing", "shared"}

(* The buffer the sequential planner leaves.                               *)
SequentialPlan ==
  ApplyWrites(FreshBuffer(ConvCapacity(op, call.tiled_output_size)),
              TripleLog(call, op))

(* The slots the writers have stored to so far.                            *)
SharedWritten ==
  UNION {{wlog[w][j].index : j \in 1..Len(wlog[w])} : w \in Writers}

(* The last store of writer w to slot i, if it has made one.                *)
LastStored(w, i) ==
  LET at == {j \in 1..Len(wlog[w]) : wlog[w][j].index = i}
  IN IF at = {} THEN Unwritten ELSE wlog[w][Last(at)].value

(* C20: planner sharding is race-free.  In a conv or deconv plan the index *)
(* sets of two distinct (group, image, output_tile_start) triples are      *)
(* disjoint and every store carries the entry the sequential plan has at   *)
(* its index; so two writers that own disjoint sets of triples store to no *)
(* common index, after any interleaving of their stores every slot holds   *)
(* what its one writer stored last (the entry of the sequential plan) or   *)
(* is untouched, and when both have finished the buffer is the sequential  *)
(* plan.  (The index sets depend on the call alone: they are compared in   *)
(* the state in which the triples have been dealt and nothing is stored.)  *)
C20_RaceFree ==
  Sharing =>
    /\ SharedWritten = {} =>
         LET full == TripleLog(call, op)
             first == call.shards[1]
             second == call.shards[2]
             plan == SequentialPlan
         IN /\ \A m, n \in DOMAIN full :
                 full[m].triple # full[n].triple
                   => full[m].index # full[n].index
            /\ \A m \in DOMAIN first, n \in DOMAIN second :
                 first[m].index # second[n].index
            /\ \A m \in DOMAIN full : plan[full[m].index] = full[m].value
            /\ Len(first) + Len(second) = Len(full)
    /\ \A i \in DOMAIN indirection_buffer :
         /\ LastStored(1, i) = Unwritten \/ LastStored(2, i) = Unwritten
         /\ indirection_buffer[i] =
              IF LastStored(1, i) # Unwritten
                THEN LastStored(1, i) ELSE LastStored(2, i)
    /\ pc = "shared" => indirection_buffer = SequentialPlan

(* A deconv plan of 64 slots dealt by image: writer 2 has finished its 32  *)
(* stores of image 1 of both groups while writer 1 has made one store.     *)
C20_Witness ==
  /\ pc = "sharing"
  /\ call.kind = "deconv2d" /\ call.sharding = "image"
  /\ ConvCapacity(op, call.tiled_output_size) = 64
  /\ Len(wlog[1]) = 1
  /\ Len(wlog[2]) = 32
  /\ Len(call.shards[1]) = 32
  /\ \E j \in 1..32 : wlog[2][j].index < 32
  /\ \E j \in 1..32 : wlog[2][j].index >= 48

---------------------------------------------------------------------------
(* The rounding shift of the requantization.                               *)

(* The post-multiply value of lane (i, j), before the correction.          *)
PostMultiply(i, j) ==
  vqrdmulhq_s32(vacc[i][j], kargs.quantization_params.multiplier)

(* The right shift S of the call, in bits.                                 *)
ShiftBits == -kargs.quantization_params.right_shift

(* v / 2^S rounded to the nearest integer, a tie rounded away from zero    *)
(* (up for v >= 0, down for v < 0), for S >= 1: from the floor of the      *)
(* quotient, the half bit and the bits below it.                           *)
NearestTiesAway(v, S) ==
  LET half == 2^(S - 1)
      floor == (v \div half) \div 2
      half_bit == (v \div half) % 2
      below == v % half
  IN IF half_bit = 0 THEN floor
     ELSE IF below > 0 THEN floor + 1
     ELSE IF v >= 0 THEN floor + 1 ELSE floor

(* C21: rounding shift step.  For every post-multiply value v and          *)
(* right_shift S in [1, 31] the correction and the shift of the kernel     *)
(* give v / 2^S rounded to the nearest, ties away from zero; for S = 0 the *)
(* correction is masked off and the result is v.                           *)
C21_RoundingShift ==
  [][kpc = "requantize" =>
       \A i \in Rows, j \in Lanes :
         /\ ShiftBits \in 0..31
         /\ vacc'[i][j] =
              IF ShiftBits = 0
                THEN PostMultiply(i, j)
                ELSE NearestTiesAway(PostMultiply(i, j), ShiftBits)]_vars

(* Lanes after the shift by 7 of the post-multiply values -64, -32, -96,   *)
(* 32, 64: the ties -0.5 and 0.5 give -1 and 1, -0.25 and 0.25 give 0,     *)
(* -0.75 gives -1.                                                         *)
C21_Witness ==
  /\ kpc = "store"
  /\ kargs.bias = TieBias /\ kargs.weights = "zero_point"
  /\ kargs.quantization_params.multiplier = 2^30
  /\ kargs.quantization_params.right_shift = -7
  /\ vacc[0][0] = -1 /\ vacc[0][1] = 0 /\ vacc[0][2] = -1
  /\ vacc[0][3] = 0 /\ vacc[0][4] = 1

(* The value the kernel adds to post-multiply value v before the shift.    *)
CorrectionAdded(v) ==
  RequantizeCorrect(v, kargs.quantization_params.right_shift) - v

(* C22 as stated: for a negative post-multiply value a and S > 0 the       *)
(* kernel adds sign(a) * ((1 << S) - 1) to a before the rounding shift,    *)
(* and nothing for a >= 0.                                                 *)
C22_CorrectionByShift ==
  kpc = "requantize" =>
    \A i \in Rows, j \in Lanes :
      LET a == PostMultiply(i, j)
      IN IF a < 0 /\ ShiftBits > 0
           THEN CorrectionAdded(a)
                  = -((2^(ShiftBits - 1) - 1) + 2^(ShiftBits - 1))
           ELSE a >= 0 => CorrectionAdded(a) = 0

(* C22, amended: pre-shift correction amount.  For a negative              *)
(* post-multiply value a and right_shift S > 0 the value the kernel adds   *)
(* to a before the rounding right shift is sign(a) = -1 (a >> 31), and for *)
(* a >= 0, or S = 0, nothing is added.                                     *)
C22_CorrectionAmount ==
  kpc = "requantize" =>
    \A i \in Rows, j \in Lanes :
      LET a == PostMultiply(i, j)
      IN CorrectionAdded(a) = IF a < 0 /\ ShiftBits > 0 THEN -1 ELSE 0

(* A call with S = 15 about to requantize lanes of both signs: the         *)
(* post-multiply value -2^29 is corrected to -2^29 - 1, 2^29 is kept.      *)
C22_Witness ==
  /\ kpc = "requantize"
  /\ kargs.bias = GridBias /\ kargs.weights = "zero_point"
  /\ kargs.quantization_params.multiplier = 2^30
  /\ ShiftBits = 15
  /\ PostMultiply(0, 1) = -(2^29) /\ CorrectionAdded(-(2^29)) = -1
  /\ PostMultiply(0, 5) = 2^29 /\ CorrectionAdded(2^29) = 0

---------------------------------------------------------------------------
(* Saturation of the Q31 multiply.                                         *)

(* floor(r / 2) for the exact r = (2*x*y + 2^31) >> 32 of two int32        *)
(* operands, from the 11-bit limbs of the operands (r itself is 2^31 for   *)
(* one operand pair, which is why its half is formed).                     *)
ExactHighHalf(x, y) ==
  LET x2 == x \div (Limb * Limb)
      x1 == (x \div Limb) % Limb
      x0 == x % Limb
      y2 == y \div (Limb * Limb)
      y1 == (y \div Limb) % Limb
      y0 == y % Limb
      low == x0 * y0
      mid == x0 * y1 + x1 * y0 + (low \div Limb)
      high == x0 * y2 + x1 * y1 + x2 * y0 + (mid \div Limb) + 2^8
  IN ((high \div 2^9) \div 2) + 2 * (x1 * y2 + x2 * y1) + 2^12 * (x2 * y2)

(* The exact result is a signed 32-bit integer.                            *)
ExactFits(x, y) ==
  /\ -(2^30) <= ExactHighHalf(x, y)
  /\ ExactHighHalf(x, y) <= 2^30 - 1

(* C23: Q31 multiply saturation.  The exact (2*a*m + 2^31) >> 32 of two    *)
(* signed 32-bit operands is outside the signed 32-bit range for the pair  *)
(* (INT32_MIN, INT32_MIN) alone, where it is 2^31 and the kernel's value   *)
(* is INT32_MAX; for every other pair, hence for every accumulator when    *)
(* the multiplier is in (0, 2^31), it fits and is the kernel's value.      *)
C23_SaturationOnce ==
  kpc = "requantize" =>
    \A i \in Rows, j \in Lanes :
      LET a == vacc[i][j]
          m == kargs.quantization_params.multiplier
      IN IF a = INT32_MIN /\ m = INT32_MIN
           THEN /\ ~ExactFits(a, m)
                /\ ExactHighHalf(a, m) = 2^30
                /\ PostMultiply(i, j) = INT32_MAX
           ELSE /\ ExactFits(a, m)
                /\ PostMultiply(i, j) \in INT32_MIN..INT32_MAX
                /\ PostMultiply(i, j) \div 2 = ExactHighHalf(a, m)

(* The accumulators at the edges of the range about to be multiplied by    *)
(* INT32_MIN: lane 0 saturates, lane 1 (INT32_MIN + 1) gives INT32_MAX     *)
(* exactly, lane 2 (INT32_MAX) gives INT32_MIN + 1.                        *)
C23_Witness ==
  /\ kpc = "requantize"
  /\ kargs.bias = EdgeBias
  /\ kargs.quantization_params.multiplier = INT32_MIN
  /\ vacc[0][0] = INT32_MIN /\ ~ExactFits(vacc[0][0], INT32_MIN)
  /\ PostMultiply(0, 1) = INT32_MAX /\ ExactFits(vacc[0][1], INT32_MIN)
  /\ PostMultiply(0, 2) = INT32_MIN + 1

---------------------------------------------------------------------------
(* The load of the tail path.                                              *)

(* The pointer a_i of row i read by the last pass of the loop, and the     *)
(* same pointer after the full-width path has advanced it.                 *)
PassPointer(i) == kargs.a[(a_pos - MR) + i + 1]

TailPointer(i) == PassPointer(i) + 8 * (kargs.kc \div 8)

(* A pass of the loop has run and kc mod 8 is not zero.                    *)
TailRan == a_pos > 0 /\ kargs.kc % 8 # 0

(* The load of row i by the tail path of the last pass: the eight row      *)
(* loads of a tail are followed by its weight loads alone.                 *)
LastTailLoad(i) ==
  loads[(Len(loads) - TailRows(kargs.kc % 8) - MR) + i + 1]

(* C24 as stated: the eight bytes are shifted left, so that the k channel  *)
(* bytes are in the high lanes and the low lanes are zero, and the load    *)
(* reads up to 7 bytes past the end of the kc channel bytes of the row.    *)
C24_TailLoadLeftShift ==
  TailRan =>
    LET k == kargs.kc % 8
    IN \A i \in Rows :
         /\ LastTailLoad(i) = [from |-> "a", at |-> TailPointer(i) - (8 - k), bytes |-> 8]
         /\ \A l \in Lanes :
              tail_vxa[i][l]
                = IF l >= 8 - k
                    THEN InputByte(kargs.seed, (TailPointer(i) + l) - (8 - k))
                    ELSE 0
         /\ LastTailLoad(i).at + 8 > PassPointer(i) + kargs.kc
         /\ LastTailLoad(i).at + 8 <= PassPointer(i) + kargs.kc + 7

(* C24, amended: when k = kc mod 8 # 0, for each of the 8 rows the kernel  *)
(* loads 8 bytes starting at (current row pointer) - (8 - k) and shifts    *)
(* the 64-bit value right by 8*(8-k) bits, so that the k channel bytes are *)
(* in the low lanes 0..k-1 and the high lanes are zero; the load ends at   *)
(* the end of the kc channel bytes of the row and, when kc < 8, starts     *)
(* 8 - kc bytes before the row.                                            *)
C24_TailLoad ==
  TailRan =>
    LET k == kargs.kc % 8
    IN \A i \in Rows :
         /\ LastTailLoad(i) = [from |-> "a", at |-> TailPointer(i) - (8 - k), bytes |-> 8]
         /\ \A l \in Lanes :
              tail_vxa[i][l]
                = IF l < k THEN InputByte(kargs.seed, TailPointer(i) + l)
                           ELSE 0
         /\ LastTailLoad(i).at + 8 = PassPointer(i) + kargs.kc
         /\ kargs.kc < 8 => LastTailLoad(i).at = PassPointer(i) - (8 - kargs.kc)

(* A call of 3 channels after its reduction: the load of row 0 started 5   *)
(* bytes before the row, on bytes that are not zero, and left the three    *)
(* channel bytes in lanes 0..2 and zeros above them.                       *)
C24_Witness ==
  /\ kpc = "requantize"
  /\ kargs.kc = 3
  /\ LastTailLoad(0).at = PassPointer(0) - 5
  /\ \A b \in 1..5 : InputByte(kargs.seed, PassPointer(0) - b) # 0
  /\ \A l \in 0..2 :
       /\ tail_vxa[0][l] = InputByte(kargs.seed, PassPointer(0) + l)
       /\ tail_vxa[0][l] # 0
  /\ \A l \in 3..7 : tail_vxa[0][l] = 0

---------------------------------------------------------------------------
(* The passes of the outer loop.                                           *)

(* The loads from the input one pass makes: eight per block of channels,   *)
(* the tail included.                                                      *)
InputLoadsPerPass(kc) == MR * ((kc \div 8) + (IF kc % 8 # 0 THEN 1 ELSE 0))

(* The first load of row i by pass s.                                      *)
FirstRowLoad(s, i) == InputStream[s * InputLoadsPerPass(kargs.kc) + i + 1]

(* The passes made so far.                                                 *)
Passes == a_pos \div MR

(* C25: the outer reduction terminates and consumes the pointers in order. *)
(* For ks >= 1 the loop makes exactly ks passes: in the loop the running   *)
(* ks is in 1..ks and 8*(ks - running ks) pointers are consumed, a pass    *)
(* consumes 8 pointers and decrements the running ks, and after the loop   *)
(* exactly 8*ks pointers are consumed and none beyond.  Pass s reads       *)
(* a[8*s] .. a[8*s+7] in that order, all 8 whatever mr is: its first       *)
(* eight loads from the input are at these pointers, row by row.           *)
C25_PassesInOrder ==
  /\ [](kargs.ks >= 1 =>
          /\ kpc = "loop" =>
               /\ ks_left \in 1..kargs.ks
               /\ a_pos = MR * (kargs.ks - ks_left)
          /\ ReductionDone => (a_pos = MR * kargs.ks /\ ks_left = 0)
          /\ kpc \in {"loop", "requantize", "store", "done"} =>
               /\ a_pos <= Len(kargs.a)
               /\ Len(InputStream) = Passes * InputLoadsPerPass(kargs.kc)
               /\ kargs.kc > 0 =>
                    \A s \in 0..(Passes - 1), i \in Rows :
                      FirstRowLoad(s, i).at
                        = kargs.a[MR * s + i + 1]
                            - (IF kargs.kc < 8 THEN 8 - kargs.kc ELSE 0))
  /\ [][kpc = "loop" =>
          /\ a_pos' = a_pos + MR
          /\ ks_left' = ks_left - 1
          /\ kpc' = IF ks_left = 1 THEN "requantize" ELSE "loop"]_vars

(* A call of MaxKs sites on a tile of 3 rows whose 8 pointers per site are *)
(* all different: the last pass has loaded row 7 at its own pointer, not   *)
(* at the pointer of row 2.                                                *)
C25_Witness ==
  /\ kpc = "requantize"
  /\ kargs.ks = MaxKs /\ kargs.mr = 3 /\ kargs.kc = 9
  /\ a_pos = MR * MaxKs
  /\ FirstRowLoad(MaxKs - 1, 7).at = kargs.a[MR * MaxKs]
  /\ kargs.a[MR * MaxKs] # kargs.a[MR * (MaxKs - 1) + 3]

---------------------------------------------------------------------------
(* The stores of a partial tile.                                           *)

(* The values stored to one address, in program order.                     *)
ValuesStoredTo(addr) ==
  LET to == SelectSeq(stores, LAMBDA s : s.index = addr)
  IN [n \in DOMAIN to |-> to[n].value]

(* The output pointers of rows mr..7 alias row mr-1, each of the rows      *)
(* mr-1 .. 7 stores to row mr-1 in row order, so that the row holds the    *)
(* requantized accumulators of kernel row 7, and each row below mr-1 is    *)
(* stored once and holds its own result.                                   *)
StoresInRowOrder ==
  LET mr == kargs.mr
  IN /\ \A i \in mr..(MR - 1) : OutputRow(kargs, i) = OutputRow(kargs, mr - 1)
     /\ \A j \in 0..(kargs.nr - 1) :
          /\ ValuesStoredTo(kargs.c + (mr - 1) * kargs.c_stride + j)
               = [n \in 1..(MR - mr + 1) |-> vout[(mr - 2) + n][j]]
          /\ OutputByte(mr - 1, j) = vout[MR - 1][j]
          /\ vout[MR - 1][j] = Reference(kargs, MR - 1, j)
          /\ \A i \in 0..(mr - 2) :
               /\ ValuesStoredTo(kargs.c + i * kargs.c_stride + j)
                    = <<vout[i][j]>>
               /\ OutputByte(i, j) = Reference(kargs, i, j)

(* Row mr-1 of the output is the reference result of row mr-1.             *)
OwnResultInLastRow ==
  \A j \in 0..(kargs.nr - 1) :
    OutputByte(kargs.mr - 1, j) = Reference(kargs, kargs.mr - 1, j)

(* C26 as stated: ... and row mr-1 equals its own reference result only if *)
(* the pointers of rows mr..7 produce the same accumulators as row mr-1.   *)
C26_OnlyIfSameAccumulators ==
  (kpc = "done" /\ kargs.mr < MR) =>
    /\ StoresInRowOrder
    /\ OwnResultInLastRow =>
         \A i \in kargs.mr..(MR - 1), j \in 0..(kargs.nr - 1) :
           ReferenceAccumulator(kargs, i, j)
             = ReferenceAccumulator(kargs, kargs.mr - 1, j)

(* C26, amended: last store wins on a partial mr.  When mr < 8 the output  *)
(* pointers of rows mr..7 all alias row mr-1 and the stores are issued in  *)
(* row order 0..7, so after the call output row mr-1 holds the requantized *)
(* accumulators of kernel row 7 (computed from pointers a[8*s+7]), not of  *)
(* row mr-1; rows 0..mr-2 hold their own rows' results.  Row mr-1          *)
(* therefore equals its own reference result if and only if kernel row 7   *)
(* requantizes to the same bytes as row mr-1 in the columns below nr, as   *)
(* it does when the pointers of rows mr..7 produce the same accumulators   *)
(* as row mr-1.                                                            *)
C26_LastStoreWins ==
  (kpc = "done" /\ kargs.mr < MR) =>
    /\ StoresInRowOrder
    /\ OwnResultInLastRow <=>
         \A j \in 0..(kargs.nr - 1) :
           Reference(kargs, MR - 1, j) = Reference(kargs, kargs.mr - 1, j)
    /\ (\A i \in kargs.mr..(MR - 1), j \in 0..(kargs.nr - 1) :
          ReferenceAccumulator(kargs, i, j)
            = ReferenceAccumulator(kargs, kargs.mr - 1, j))
         => OwnResultInLastRow

(* A finished tile of 5 rows and 3 columns on eight different input rows:  *)
(* rows 4..7 have stored to output row 4 in turn, and the row holds the    *)
(* bytes of kernel row 7, which are not those of row 4.                    *)
C26_Witness ==
  /\ kpc = "done"
  /\ kargs.mr = 5 /\ kargs.nr = 3
  /\ Len(ValuesStoredTo(kargs.c + 4 * kargs.c_stride)) = 4
  /\ ~OwnResultInLastRow
  /\ \A j \in 0..2 : OutputByte(4, j) = vout[7][j]

---------------------------------------------------------------------------
(* The window of the input reads.                                          *)

(* The loads of row i by pass s: one per block of channels, the tail       *)
(* included.                                                               *)
BlocksPerPass(kc) == (kc \div 8) + (IF kc % 8 # 0 THEN 1 ELSE 0)

RowLoad(s, i, b) == InputStream[s * InputLoadsPerPass(kargs.kc) + MR * b + i + 1]

(* C27: input read window.  For every row pointer p the kernel consumes,   *)
(* no byte at offset >= kc from p is read; when kc >= 8 every byte read    *)
(* is in [p, p+kc); when 1 <= kc < 8 the row is read by a single 8-byte    *)
(* load that covers [p-(8-kc), p+kc), 8-kc bytes before p and none after   *)
(* the channel bytes.                                                      *)
C27_ReadWindow ==
  (Passes > 0 /\ kargs.kc >= 1) =>
    /\ Len(InputStream) = Passes * MR * BlocksPerPass(kargs.kc)
    /\ \A s \in 0..(Passes - 1), i \in Rows :
         LET p == kargs.a[MR * s + i + 1]
         IN /\ \A b \in 0..(BlocksPerPass(kargs.kc) - 1) :
                 /\ RowLoad(s, i, b).from = "a"
                 /\ RowLoad(s, i, b).at + RowLoad(s, i, b).bytes <= p + kargs.kc
                 /\ kargs.kc >= 8 => RowLoad(s, i, b).at >= p
            /\ kargs.kc < 8 =>
                 /\ BlocksPerPass(kargs.kc) = 1
                 /\ RowLoad(s, i, 0).at = p - (8 - kargs.kc)
                 /\ RowLoad(s, i, 0).bytes = 8

(* After the reduction of a call of 3 channels per row: the one load of    *)
(* row 7 of the last site covers the 5 bytes before its pointer and the    *)
(* 3 channel bytes at it.                                                   *)
C27_Witness ==
  /\ kpc = "requantize"
  /\ kargs.kc = 3 /\ kargs.ks = MaxKs
  /\ Len(InputStream) = MR * MaxKs
  /\ RowLoad(MaxKs - 1, 7, 0).at = kargs.a[MR * MaxKs] - 5
  /\ RowLoad(MaxKs - 1, 7, 0).at + 8 = kargs.a[MR * MaxKs] + 3

---------------------------------------------------------------------------
(* The bytes outside the channels of the input rows.                       *)

(* The accumulators of a call after its ks passes, from site on.           *)
RECURSIVE Reduction(_, _, _, _)
Reduction(args, acc, site, w) ==
  IF site = args.ks
    THEN acc
    ELSE LET ptr == [i \in Rows |-> args.a[MR * site + i + 1]]
             full == FullPath(args, acc, ptr, w, args.kc)
             r == TailPath(args, full)
         IN Reduction(args, r.vacc, site + 1, r.w)

(* The output memory a call leaves.                                        *)
CallOutput(args) ==
  LET acc == Reduction(args,
                       [i \in Rows |-> [j \in Lanes |-> PackedBias(args, j)]],
                       0, 32)
      out == [i \in Rows |->
                [j \in Lanes |->
                   RequantizeNarrow(
                     RequantizeShift(acc[i][j], args.quantization_params),
                     args.quantization_params)]]
  IN ApplyWrites([addr \in OutputRegion |-> OutputFill(addr)],
                 KernelStores(args, out))

(* The call on the memory of seed 1 with the arguments of the call made.   *)
Twin == [kargs EXCEPT !.seed = 1]

(* The memories of two calls agree on the channel bytes of a row pointer.  *)
AgreeOnChannels(args1, args2) ==
  \A n \in DOMAIN args1.a, ch \in 0..(args1.kc - 1) :
    InputByte(args1.seed, args1.a[n] + ch)
      = InputByte(args2.seed, args2.a[n] + ch)

(* The bytes before row pointer n that the tail load of a call of fewer    *)
(* than 8 channels touches.                                                *)
SlackBefore(args, n) ==
  IF args.kc < 8
    THEN {args.a[n] - d : d \in 1..(8 - args.kc)}
    ELSE {}

(* C28: out-of-channel bytes do not influence the output.  Two calls whose *)
(* inputs agree on the kc channel bytes [p, p+kc) of every row pointer, on *)
(* the weights, biases and parameters, and differ in the other bytes the   *)
(* tail load touches, store identical output bytes; the bytes outside the  *)
(* channels need not be the input zero point.                              *)
C28_SlackIgnored ==
  (kpc = "done" /\ kargs.seed >= SlackSeed /\ AgreeOnChannels(kargs, Twin)) =>
    /\ cmem = CallOutput(Twin)
    /\ stores = KernelStores(Twin, vout)

(* A finished call of 3 channels whose 5 bytes before every row pointer    *)
(* are 255 where the twin call has another byte, and whose output has      *)
(* bytes strictly inside the output range.                                 *)
C28_Witness ==
  /\ kpc = "done"
  /\ kargs.seed = SlackSeed + 256 * 3 + 255
  /\ kargs.kc = 3 /\ kargs.mr = 8 /\ kargs.nr = 8 /\ kargs.ks = MaxKs
  /\ AgreeOnChannels(kargs, Twin)
  /\ \A n \in DOMAIN kargs.a :
       /\ \A addr \in SlackBefore(kargs, n) : InputByte(kargs.seed, addr) = 255
       /\ \E addr \in SlackBefore(kargs, n) : InputByte(1, addr) # 255
  /\ \E j \in Lanes : OutputByte(0, j) \notin {0, 255}
  /\ \E j \in Lanes : OutputByte(0, j) # OutputByte(1, j)

---------------------------------------------------------------------------
(* The depthwise writes that share a slot.                                 *)

(* The loop iterations of the j-th write of a depthwise call: its          *)
(* (image, output_y, kernel_y), counted from the first, its output_x and   *)
(* its kernel_x.                                                           *)
WriteKernelRow(j) == (j - 1) \div (op.output_width * op.kernel_width)

WriteOutputX(j) == ((j - 1) \div op.kernel_width) % op.output_width

WriteKernelX(j) == (j - 1) % op.kernel_width

(* The pairs of writes of one output row and kernel row, the earlier       *)
(* first, that have the same index.                                        *)
SharingPairs ==
  LET row == op.output_width * op.kernel_width
  IN UNION {{<<j1, j2>> :
               j2 \in {j \in (j1 + 1)..((WriteKernelRow(j1) + 1) * row) :
                         wlog[j].index = wlog[j1].index}} :
              j1 \in DOMAIN wlog}

(* C29: depthwise overlapping writes agree.  In a depthwise plan, (ox, kx) *)
(* pairs of one output row and kernel row map to the same index only when  *)
(* step_width < kW, and then the pairs with equal ox*step_width + kx do.   *)
(* If step_width = sW and dW = 1 the pairs sharing an index compute the    *)
(* same input_x and write the same value, so the entry does not depend on  *)
(* the order of the writes; in every case the later write of the pair is   *)
(* the one of the larger ox, and an entry of the buffer holds the value of  *)
(* the last write to its index in loop order.                              *)
C29_OverlapsAgree ==
  Planned("dwconv2d") =>
    /\ \A p \in SharingPairs :
         /\ call.step_width < op.kernel_width
         /\ WriteOutputX(p[1]) * call.step_width + WriteKernelX(p[1])
              = WriteOutputX(p[2]) * call.step_width + WriteKernelX(p[2])
         /\ WriteOutputX(p[1]) < WriteOutputX(p[2])
         /\ (call.step_width = op.stride_width /\ op.dilation_width = 1) =>
              wlog[p[1]].value = wlog[p[2]].value
    /\ \A j \in DOMAIN wlog :
         (/\ wlog[j].index \in DOMAIN indirection_buffer
          /\ \A j2 \in (j + 1)..Len(wlog) : wlog[j2].index # wlog[j].index) =>
           indirection_buffer[wlog[j].index] = wlog[j].value

(* A depthwise plan with step_width = sW = 1 below kW and dW = 1 in which  *)
(* two writes of one kernel row share an index and write the same input    *)
(* address.                                                                *)
C29_Witness ==
  /\ Planned("dwconv2d")
  /\ call.step_width = 1 /\ op.stride_width = 1 /\ op.dilation_width = 1
  /\ op.kernel_width > 1
  /\ \E p \in SharingPairs :
       /\ wlog[p[1]].value = wlog[p[2]].value
       /\ wlog[p[1]].value # op.zero_pointer
       /\ indirection_buffer[wlog[p[1]].index] = wlog[p[2]].value

(* A depthwise plan with step_width # sW in which two writes of one kernel *)
(* row share an index and write different values, the entry being the      *)
(* later one, of the larger ox.                                            *)
C29_WitnessDisagree ==
  /\ Planned("dwconv2d")
  /\ call.step_width # op.stride_width
  /\ \E p \in SharingPairs :
       /\ wlog[p[1]].value # wlog[p[2]].value
       /\ indirection_buffer[wlog[p[1]].index] = wlog[p[2]].value

---------------------------------------------------------------------------
(* The frame of batch_start.                                               *)

(* The writes of the call made, had it been made with batch_start = 0.     *)
LogFromFirstImage ==
  IF call.kind = "dwconv2d"
    THEN Dwconv2dLog(op, 0, call.step_height, call.step_width)
    ELSE MaxpoolLog(op, 0, call.step_height, call.step_width)

(* The writes of one image.                                                *)
WritesPerImage ==
  op.output_height * op.kernel_height * op.output_width * op.kernel_width

(* The first slot of image n.                                              *)
ImageBase(n) == n * op.output_height * call.step_height

(* C30: the frame of batch_start.  A depthwise or max-pool call with       *)
(* batch_start = b writes only at indices >= b*H'*step_height, which are   *)
(* the indices of images b..N-1 when the rows do not overflow step_height, *)
(* and leaves every entry of images 0..b-1 as it was; with b >= N it       *)
(* writes nothing; the writes it makes for image n are, in order, those a  *)
(* call with batch_start = 0 makes for image n.                            *)
C30_BatchStartFrame ==
  StepPlanned =>
    LET b == call.batch_start
    IN /\ \A j \in DOMAIN wlog :
            /\ wlog[j].index >= ImageBase(b)
            /\ call.step_height >= RowExtent =>
                 wlog[j].index < ImageBase(op.batch_size)
       /\ \A i \in DOMAIN indirection_buffer :
            i < ImageBase(b) => indirection_buffer[i] = Unwritten
       /\ b >= op.batch_size =>
            (wlog = <<>> /\ \A i \in DOMAIN indirection_buffer :
                              indirection_buffer[i] = Unwritten)
       /\ b < op.batch_size =>
            /\ Len(wlog) = (op.batch_size - b) * WritesPerImage
            /\ \A j \in DOMAIN wlog :
                 wlog[j] = LogFromFirstImage[b * WritesPerImage + j]

(* A depthwise plan from image 1 of 2: the slots of image 0 are as they    *)
(* were, and a slot of image 1 holds an input address of image 1.          *)
C30_Witness ==
  /\ Planned("dwconv2d")
  /\ call.batch_start = 1 /\ op.batch_size >= 2
  /\ call.step_height >= RowExtent
  /\ \A i \in 0..(ImageBase(1) - 1) : indirection_buffer[i] = Unwritten
  /\ \E i \in ImageBase(1)..(ImageBase(2) - 1) :
       indirection_buffer[i]
         >= op.input + op.input_height * op.input_width * op.input_pixel_stride

====
